---- MODULE Spec2Model ----
(***************************************************************************)
(* Model of the asynchronous route-optimization pipeline of                *)
(* syncnox-backend: the request store (optimization_request table), the    *)
(* RQ work queue, the submitter (OptimizationService) and the worker       *)
(* function run_optimization_worker with the components it drives          *)
(* (data loader, routing provider, VRP solver, result formatter, route     *)
(* storage).                                                               *)
(*                                                                         *)
(* Every database commit of the worker is one step of the model, so that   *)
(* the states in between are the states other sessions can observe.        *)
(***************************************************************************)
EXTENDS Integers, Sequences, FiniteSets, TLC

(***************************************************************************)
(* Bounds of the model                                                     *)
(***************************************************************************)
\* number of submit calls explored (ids issued by the request sequence)
MaxReq == 2
\* how many times the queue may deliver one request id
MaxDeliveries == 2
\* the most jobs of a matrix call of the TomTom client
MaxMatrixJobs == 15
\* the longest wait before a leg, in minutes, the solver model explores
MaxWait == 2

(***************************************************************************)
(* Program constants                                                       *)
(***************************************************************************)
\* tomtom_client.py:24  most locations of a synchronous matrix call
SYNC_LOCATION_THRESHOLD == 14
\* tomtom_client.py:27  seconds between two polls of an asynchronous call
POLL_INTERVAL_SECONDS == 2
\* tomtom_client.py:28  polls of an asynchronous call
MAX_POLL_ATTEMPTS == 60
\* solver.py:188  slack of the time dimension
MaxSlackSeconds == 28800
\* solver.py:189  capacity of the time dimension
MaxTimePerVehicle == 86400
\* constraint_builder.py:102  overtime extension
OvertimeSeconds == 7200

\* None / NULL: of a string, of a time of day, and 0 of an integer column
\* (serial ids and the logical timestamps start at 1)
NoneVal == "None"

WorkerIds == {"w1", "w2"}

(***************************************************************************)
(* Rows managed by the external CRUD (tenant, depot, job, team member).    *)
(* They are the fixture the pipeline runs against.                         *)
(***************************************************************************)
TenantA == 1
TenantB == 2

\* app/models/depot.py
DepotTable ==
    (1 :> [tenant_id |-> TenantA, location |-> TRUE]) @@
    (2 :> [tenant_id |-> TenantB, location |-> TRUE]) @@
    (4 :> [tenant_id |-> TenantA, location |-> FALSE])

\* a time of day, as datetime.time
Time(h, m, s) == [hour |-> h, minute |-> m, second |-> s]
NoTime == [hour |-> -1, minute |-> 0, second |-> 0]
\* truthiness of an Optional[time]: a time object is always truthy
IsTime(t) == t # NoTime

\* app/models/job.py: the columns the pipeline reads and never writes
JobTable ==
    (1 :> [tenant_id |-> TenantA, location |-> TRUE, service_duration |-> 1,
           time_window_start |-> NoTime, time_window_end |-> NoTime]) @@
    (2 :> [tenant_id |-> TenantA, location |-> TRUE, service_duration |-> 0,
           time_window_start |-> Time(0, 3, 0), time_window_end |-> Time(0, 4, 0)]) @@
    (3 :> [tenant_id |-> TenantB, location |-> TRUE, service_duration |-> 1,
           time_window_start |-> NoTime, time_window_end |-> NoTime]) @@
    (4 :> [tenant_id |-> TenantA, location |-> FALSE, service_duration |-> 1,
           time_window_start |-> NoTime, time_window_end |-> NoTime])

JobIds == DOMAIN JobTable

\* app/models/team_member.py
TeamMemberTable ==
    (1 :> [tenant_id |-> TenantA, vehicle_id |-> 0,
           work_start_time |-> Time(0, 1, 0), work_end_time |-> Time(0, 5, 0),
           allowed_overtime |-> FALSE]) @@
    (2 :> [tenant_id |-> TenantA, vehicle_id |-> 0,
           work_start_time |-> NoTime, work_end_time |-> NoTime,
           allowed_overtime |-> FALSE]) @@
    (3 :> [tenant_id |-> TenantA, vehicle_id |-> 0,
           work_start_time |-> Time(0, 1, 0), work_end_time |-> NoTime,
           allowed_overtime |-> FALSE]) @@
    (4 :> [tenant_id |-> TenantB, vehicle_id |-> 0,
           work_start_time |-> Time(0, 1, 0), work_end_time |-> Time(0, 5, 0),
           allowed_overtime |-> FALSE]) @@
    (6 :> [tenant_id |-> TenantA, vehicle_id |-> 0,
           work_start_time |-> Time(0, 4, 0), work_end_time |-> Time(0, 4, 30),
           allowed_overtime |-> FALSE])

TeamMemberIds == DOMAIN TeamMemberTable

(***************************************************************************)
(* Helpers                                                                 *)
(***************************************************************************)
Range(s) == {s[i] : i \in DOMAIN s}

Min(S) == CHOOSE x \in S : \A y \in S : x <= y

RECURSIVE SetToSeq(_)
\* list(a_set) of integers, in ascending order
SetToSeq(S) ==
    IF S = {} THEN <<>>
    ELSE LET m == Min(S) IN <<m>> \o SetToSeq(S \ {m})

RECURSIVE Flatten(_)
Flatten(ss) == IF ss = <<>> THEN <<>> ELSE Head(ss) \o Flatten(Tail(ss))

\* Python truthiness of an Optional[int] and of an Optional[str]
Truthy(v) == v # 0
TruthyStr(v) == v # NoneVal /\ v # ""

(***************************************************************************)
(* Data loader (optimization_engine/data_loader.py)                        *)
(***************************************************************************)
\* get_multi_by_ids without the tenant filter
GetJobsByIdsAnyTenant(jobRows, job_ids, tenant_id, status) ==
    SetToSeq({j \in JobIds :
                /\ j \in Range(job_ids)
                /\ (TruthyStr(status) => jobRows[j].status = status)})

\* CRUDJob.get_multi_by_ids: WHERE id IN job_ids AND tenant_id = ? [AND status = ?]
\* The rows come back once each, whatever the list repeats; listed by id.
GetJobsByIds(jobRows, job_ids, tenant_id, status) ==
    SetToSeq({j \in JobIds :
                /\ j \in Range(job_ids)
                /\ JobTable[j].tenant_id = tenant_id
                /\ (TruthyStr(status) => jobRows[j].status = status)})

\* CRUDTeamMember.get_multi_by_ids
GetTeamMembersByIds(ids, tenant_id) ==
    SetToSeq({t \in TeamMemberIds :
                t \in Range(ids) /\ TeamMemberTable[t].tenant_id = tenant_id})

\* CRUDBase.get on the depot table
GetDepot(id, tenant_id) ==
    IF id \in DOMAIN DepotTable /\ DepotTable[id].tenant_id = tenant_id
    THEN id ELSE 0

NoData == [depot_id |-> 0, jobs |-> <<>>, team_members |-> <<>>]
Raise(msg) == [error |-> msg, data |-> NoData]
Return(v) == [error |-> NoneVal, data |-> v]

\* OptimizationDataLoader._load_depot
LoadDepot(depot_id, tenant_id) ==
    LET depot == GetDepot(depot_id, tenant_id) IN
    IF depot = 0 THEN Raise("Depot not found")
    ELSE IF ~DepotTable[depot].location THEN Raise("Depot has no location")
    ELSE Return(depot)

\* _load_jobs with the rows found counted against the distinct ids
LoadJobsByDistinctIds(jobRows, job_ids, tenant_id) ==
    LET jobs == GetJobsByIds(jobRows, job_ids, tenant_id, "draft") IN
    IF Len(jobs) # Cardinality(Range(job_ids))
    THEN Raise("Jobs not found or not in draft status")
    ELSE IF \E i \in DOMAIN jobs : ~JobTable[jobs[i]].location
    THEN Raise("Job has no location")
    ELSE Return(jobs)

\* OptimizationDataLoader._load_jobs
LoadJobs(jobRows, job_ids, tenant_id) ==
    LET jobs == GetJobsByIds(jobRows, job_ids, tenant_id, "draft") IN
    IF Len(jobs) # Len(job_ids)
    THEN Raise("Jobs not found or not in draft status")
    ELSE IF \E i \in DOMAIN jobs : ~JobTable[jobs[i]].location
    THEN Raise("Job has no location")
    ELSE Return(jobs)

\* OptimizationDataLoader._load_team_members
LoadTeamMembers(team_member_ids, tenant_id) ==
    LET tms == GetTeamMembersByIds(team_member_ids, tenant_id) IN
    IF Len(tms) # Len(team_member_ids)
    THEN Raise("Team members not found")
    ELSE Return(tms)

\* OptimizationDataLoader._validate_data
ValidateData(jobs, team_members) ==
    IF jobs = <<>> THEN Raise("No jobs to optimize")
    ELSE IF team_members = <<>> THEN Raise("No team members available")
    ELSE Return(NoData)

\* OptimizationDataLoader.load: the OptimizationData, or the ValueError raised
Load(jobRows, depot_id, job_ids, team_member_ids, tenant_id) ==
    LET d == LoadDepot(depot_id, tenant_id) IN
    IF d.error # NoneVal THEN d ELSE
    LET js == LoadJobs(jobRows, job_ids, tenant_id) IN
    IF js.error # NoneVal THEN js ELSE
    LET ts == LoadTeamMembers(team_member_ids, tenant_id) IN
    IF ts.error # NoneVal THEN ts ELSE
    LET v == ValidateData(js.data, ts.data) IN
    IF v.error # NoneVal THEN v ELSE
    Return([depot_id |-> d.data, jobs |-> js.data, team_members |-> ts.data])

(***************************************************************************)
(* Constraint model and solver (constraint_builder.py, solver.py)          *)
(* Locations are indexed 0 = depot, 1..N = data.jobs, vehicles 1..V =      *)
(* data.team_members.                                                      *)
(***************************************************************************)
\* ConstraintBuilder._time_to_seconds
TimeToSeconds(t) == t.hour * 3600 + t.minute * 60 + t.second

\* ConstraintBuilder.get_service_times, at one location index
ServiceTime(data, node) ==
    IF node = 0 THEN 0
    ELSE LET sd == JobTable[data.jobs[node]].service_duration IN
         (IF Truthy(sd) THEN sd ELSE 0) * 60

\* The matrix the routing provider answers with: one-minute legs, and the
\* diagonal forced to 0 by the client.
DurationMatrix(i, j) == IF i = j THEN 0 ELSE 60

\* VRPSolver._add_time_dimension.time_callback
TimeCallback(data, from_node, to_node) ==
    DurationMatrix(from_node, to_node) + ServiceTime(data, from_node)

\* ConstraintBuilder.add_time_windows: the range of the cumul variable of a node
TimeWindowOK(data, node, t) ==
    LET job == JobTable[data.jobs[node]] IN
    (IsTime(job.time_window_start) /\ IsTime(job.time_window_end))
        => /\ TimeToSeconds(job.time_window_start) <= t
           /\ t <= TimeToSeconds(job.time_window_end)

\* ConstraintBuilder.add_working_hours: the ranges of the start and end cumul
WorkingHoursOK(tm, start, end) ==
    (IsTime(tm.work_start_time) /\ IsTime(tm.work_end_time))
        => LET start_seconds == TimeToSeconds(tm.work_start_time)
               end_seconds == TimeToSeconds(tm.work_end_time)
               max_end == IF tm.allowed_overtime
                          THEN end_seconds + OvertimeSeconds ELSE end_seconds
           IN  /\ start = start_seconds
               /\ start_seconds <= end /\ end <= max_end

RECURSIVE Arrivals(_, _, _, _, _)
\* the cumul values along nodes, from the cumul `at` of location `from`, with
\* the waiting times `slacks` (one per leg)
Arrivals(data, from, at, nodes, slacks) ==
    IF nodes = <<>> THEN <<>>
    ELSE LET t == at + TimeCallback(data, from, Head(nodes)) + Head(slacks) IN
         <<t>> \o Arrivals(data, Head(nodes), t, Tail(nodes), Tail(slacks))

\* sequences of distinct locations out of S
RECURSIVE Tours(_)
Tours(S) ==
    {<<>>} \cup UNION {{<<n>> \o t : t \in Tours(S \ {n})} : n \in S}

\* The assignments of one vehicle that satisfy the time dimension
\* (solver.py:186-192) and the constraints on it: the visited nodes, the
\* start cumul, the cumul at each node and the end cumul.
VehicleRoutes(data, v, starts, slacks) ==
    LET tm == TeamMemberTable[data.team_members[v]]
        N == Len(data.jobs)
    IN  {[nodes |-> <<>>, start |-> 0, arrivals |-> <<>>, end |-> 0]} \cup
        {r \in UNION {UNION {{
              LET arr == Arrivals(data, 0, s, nodes, sl)
                  last == nodes[Len(nodes)]
              IN  [nodes |-> nodes, start |-> s, arrivals |-> arr,
                   end |-> arr[Len(arr)] + TimeCallback(data, last, 0)
                           + sl[Len(nodes) + 1]]
              : sl \in [1..(Len(nodes) + 1) ->
                            {x \in slacks : x <= MaxSlackSeconds}]}
              : s \in starts}
              : nodes \in Tours(1..N) \ {<<>>}} :
            /\ \A i \in DOMAIN r.nodes : TimeWindowOK(data, r.nodes[i], r.arrivals[i])
            /\ WorkingHoursOK(tm, r.start, r.end)
            /\ r.start <= MaxTimePerVehicle /\ r.end <= MaxTimePerVehicle}

\* the routes of the vehicles 1..v, no location on two of them
RECURSIVE AssignVehicles(_, _, _, _)
AssignVehicles(data, v, starts, slacks) ==
    IF v = 0 THEN {<<>>}
    ELSE LET before == AssignVehicles(data, v - 1, starts, slacks)
             mine == VehicleRoutes(data, v, starts, slacks)
         IN  {Append(p[1], p[2]) :
                p \in {q \in before \X mine :
                          \A u \in 1..(v - 1) :
                             Range(q[1][u].nodes) \cap Range(q[2].nodes) = {}}}

\* What routing.SolveWithParameters may answer: one route per vehicle, no
\* location on two routes (every job is in a disjunction of its own, so any
\* of them may be dropped).
SolverAssignments(data, starts, slacks) ==
    AssignVehicles(data, Len(data.team_members), starts, slacks)

\* VRPSolver._extract_solution, the stops of one vehicle
ExtractStops(data, r) ==
    [i \in DOMAIN r.nodes |->
        [job_id |-> data.jobs[r.nodes[i]],
         location_index |-> r.nodes[i],
         arrival_time |-> r.arrivals[i],
         duration_to_next |->
            DurationMatrix(r.nodes[i],
                           IF i < Len(r.nodes) THEN r.nodes[i + 1] ELSE 0)]]

\* VRPSolver._extract_solution, the route of one vehicle
ExtractRoute(data, a, v) ==
    [team_member_id |-> data.team_members[v],
     vehicle_id |-> TeamMemberTable[data.team_members[v]].vehicle_id,
     stops |-> ExtractStops(data, a[v]),
     duration_seconds |-> a[v].end - a[v].start,
     start_duration |-> DurationMatrix(0, a[v].nodes[1])]

\* all_job_ids, without the subtraction of the assigned ones
AllJobsUnassigned(data, routes) == {data.jobs[i] : i \in DOMAIN data.jobs}

\* VRPSolver._extract_solution: all_job_ids - assigned_job_ids
UnassignedJobs(data, routes) ==
    {data.jobs[i] : i \in DOMAIN data.jobs} \
    UNION {{routes[k].stops[i].job_id : i \in DOMAIN routes[k].stops} :
              k \in DOMAIN routes}

\* VRPSolver._extract_solution: the routes of the vehicles that visit a job,
\* in vehicle order, and the jobs on no route
ExtractSolution(data, a) ==
    LET used == SelectSeq([v \in 1..Len(data.team_members) |-> v],
                          LAMBDA v : a[v].nodes # <<>>)
        routes == [k \in DOMAIN used |-> ExtractRoute(data, a, used[k])]
    IN  [routes |-> routes,
         unassigned_jobs |-> SetToSeq(UnassignedJobs(data, routes))]

(***************************************************************************)
(* Result formatter (optimization_engine/result_formatter.py)              *)
(***************************************************************************)
\* a datetime on or after the scheduled date: the day offset and the second
\* of the day
NoDatetime == [day |-> -1, sec |-> 0]

\* ResultFormatter._seconds_to_datetime: midnight of scheduled_date + seconds
SecondsToDatetime(seconds) ==
    [day |-> seconds \div 86400, sec |-> seconds % 86400]

\* datetime + timedelta(minutes=m)
PlusMinutes(dt, m) ==
    LET total == dt.sec + m * 60 IN
    [day |-> dt.day + total \div 86400, sec |-> total % 86400]

\* ResultFormatter._time_string_to_seconds
TimeStringToSeconds(t) == t.hour * 3600 + t.minute * 60 + t.second

\* ResultFormatter.format, lines 50-55 and 106-109
DepotStartSeconds(team_member) ==
    IF IsTime(team_member.work_start_time)
    THEN TimeStringToSeconds(team_member.work_start_time)
    ELSE 0

\* ResultFormatter.format, lines 58-67: the starting depot stop
FormatDepotStart(team_member, route) ==
    [job_id |-> 0,
     arrival_time |-> SecondsToDatetime(DepotStartSeconds(team_member)),
     departure_time |-> NoDatetime,
     stop_type |-> "depot",
     service_duration_minutes |-> 0,
     time_to_next_stop_seconds |-> route.start_duration]

\* ResultFormatter.format, lines 69-102: one job stop
FormatJobStop(stop) ==
    LET arrival_time == SecondsToDatetime(stop.arrival_time)
        service_duration_mins == JobTable[stop.job_id].service_duration
    IN  [job_id |-> stop.job_id,
         arrival_time |-> arrival_time,
         departure_time |-> PlusMinutes(arrival_time, service_duration_mins),
         stop_type |-> "job",
         service_duration_minutes |-> service_duration_mins,
         time_to_next_stop_seconds |-> stop.duration_to_next]

\* ResultFormatter.format, lines 104-124: the ending depot stop
FormatDepotEnd(team_member, route) ==
    [job_id |-> 0,
     arrival_time |->
        SecondsToDatetime(DepotStartSeconds(team_member) + route.duration_seconds),
     departure_time |-> NoDatetime,
     stop_type |-> "depot",
     service_duration_minutes |-> 0,
     time_to_next_stop_seconds |-> 0]

\* datetime + timedelta(seconds=s)
PlusSeconds(dt, s) ==
    LET total == dt.sec + s IN
    [day |-> dt.day + total \div 86400, sec |-> total % 86400]

\* (a - b).total_seconds()
TotalSeconds(a, b) == (a.day - b.day) * 86400 + a.sec - b.sec

\* ResultFormatter._calculate_idle_blocks, lines 416-430: the departure the
\* pair (i, i + 1) is measured from, and the arrival expected at i + 1
ExpectedNextArrival(formatted_stops, i) ==
    LET current_stop == formatted_stops[i]
        departure_time == IF current_stop.departure_time # NoDatetime
                          THEN current_stop.departure_time
                          ELSE current_stop.arrival_time
    IN  PlusSeconds(departure_time, current_stop.time_to_next_stop_seconds)

IdleSeconds(formatted_stops, i) ==
    TotalSeconds(formatted_stops[i + 1].arrival_time,
                 ExpectedNextArrival(formatted_stops, i))

\* the block of the pair (i, i + 1); the location is the downstream stop's,
\* which the model knows by the stop's job_id
IdleBlock(formatted_stops, i) ==
    [start_time |-> ExpectedNextArrival(formatted_stops, i),
     end_time |-> formatted_stops[i + 1].arrival_time,
     duration_minutes |-> IdleSeconds(formatted_stops, i) \div 60,
     after_stop_index |-> i - 1,
     location |-> formatted_stops[i + 1].job_id]

\* idle blocks for every gap of a minute or more
CalculateIdleBlocksFromAMinute(formatted_stops) ==
    LET pairs == [i \in 1..(Len(formatted_stops) - 1) |-> i]
        idle(i) == IdleSeconds(formatted_stops, i) >= 60
        significant == SelectSeq(pairs, idle)
    IN  [b \in DOMAIN significant |-> IdleBlock(formatted_stops, significant[b])]

\* ResultFormatter._calculate_idle_blocks
CalculateIdleBlocks(formatted_stops) ==
    LET pairs == [i \in 1..(Len(formatted_stops) - 1) |-> i]
        idle(i) == IdleSeconds(formatted_stops, i) > 60
        significant == SelectSeq(pairs, idle)
    IN  [b \in DOMAIN significant |-> IdleBlock(formatted_stops, significant[b])]

\* what the routing provider's get_route does for one route: it answers with
\* a polyline, answers None (HTTP error, timeout, no path), or raises
PolylineOutcomes == {"polyline", "none", "raised"}

\* ResultFormatter.format, lines 126-168: route_polyline stays None unless
\* get_route answered with a polyline; whatever is raised is logged
RoutePolyline(polyline_outcome) ==
    IF polyline_outcome = "polyline" THEN "encoded" ELSE NoneVal

\* ResultFormatter.format, lines 37-191: one route of the result
FormatRoute(data, route, polyline_outcome) ==
    LET team_member == TeamMemberTable[route.team_member_id]
        formatted_stops ==
            <<FormatDepotStart(team_member, route)>>
            \o [i \in DOMAIN route.stops |-> FormatJobStop(route.stops[i])]
            \o <<FormatDepotEnd(team_member, route)>>
    IN
    [team_member_id |-> route.team_member_id,
     vehicle_id |-> route.vehicle_id,
     total_duration_seconds |-> route.duration_seconds,
     route_polyline |-> RoutePolyline(polyline_outcome),
     stops |-> formatted_stops,
     idle_blocks |-> CalculateIdleBlocks(formatted_stops)]

\* a driver with both working hours set (lines 284 and 304)
HasWorkingHours(tm) == IsTime(tm.work_start_time) /\ IsTime(tm.work_end_time)

TimeWindowReason == "Time window is outside of all team member's working hours"
ServiceDurationReason(minutes) ==
    "Service duration (" \o ToString(minutes)
        \o " min) exceeds all team member's shift lengths"
DefaultReason == "Could not be visited within constraints"

\* the reasons of a formatter that never looks at the time window
AnalyzeUnassignedReasonNoWindow(data, job_id) ==
    IF job_id \notin Range(data.jobs) THEN "Job not found in optimization data"
    ELSE
      LET job == JobTable[job_id]
          team_members == {TeamMemberTable[t] : t \in Range(data.team_members)}
          service_duration_sec ==
              (IF Truthy(job.service_duration) THEN job.service_duration ELSE 0) * 60
          can_fit_in_any_shift ==
              \E tm \in team_members :
                  \/ ~HasWorkingHours(tm)
                  \/ service_duration_sec <=
                        TimeStringToSeconds(tm.work_end_time)
                            - TimeStringToSeconds(tm.work_start_time)
      IN  IF service_duration_sec > 0 /\ ~can_fit_in_any_shift
          THEN ServiceDurationReason(job.service_duration)
          ELSE DefaultReason

\* ResultFormatter._analyze_unassigned_reason
AnalyzeUnassignedReason(data, job_id) ==
    IF job_id \notin Range(data.jobs) THEN "Job not found in optimization data"
    ELSE
      LET job == JobTable[job_id]
          team_members == {TeamMemberTable[t] : t \in Range(data.team_members)}
          can_be_served_by_any ==
              \E tm \in team_members :
                  \/ ~HasWorkingHours(tm)
                  \/ /\ TimeStringToSeconds(job.time_window_start)
                            < TimeStringToSeconds(tm.work_end_time)
                     /\ TimeStringToSeconds(job.time_window_end)
                            > TimeStringToSeconds(tm.work_start_time)
          service_duration_sec ==
              (IF Truthy(job.service_duration) THEN job.service_duration ELSE 0) * 60
          can_fit_in_any_shift ==
              \E tm \in team_members :
                  \/ ~HasWorkingHours(tm)
                  \/ service_duration_sec <=
                        TimeStringToSeconds(tm.work_end_time)
                            - TimeStringToSeconds(tm.work_start_time)
      IN  IF /\ IsTime(job.time_window_start) /\ IsTime(job.time_window_end)
             /\ ~can_be_served_by_any
          THEN TimeWindowReason
          ELSE IF service_duration_sec > 0 /\ ~can_fit_in_any_shift
          THEN ServiceDurationReason(job.service_duration)
          ELSE DefaultReason

\* ResultFormatter.format, lines 193-208
Format(data, solution, polyline_outcomes) ==
    [status |-> "success",
     optimization_goal |-> "minimum_time",
     routes |-> [k \in DOMAIN solution.routes |-> FormatRoute(data, solution.routes[k], polyline_outcomes[k])],
     unassigned_jobs |-> [i \in DOMAIN solution.unassigned_jobs |->
                             [job_id |-> solution.unassigned_jobs[i],
                              reason |-> AnalyzeUnassignedReason(
                                             data, solution.unassigned_jobs[i])]]]

\* a request row without a result (the JSONB column is NULL)
NoResult == [status |-> NoneVal]

(***************************************************************************)
(* Route storage (optimization_engine/route_storage.py, crud/job.py)       *)
(***************************************************************************)
\* RouteStorage.store_routes, lines 49-58: job_ids_to_assign
JobIdsToAssign(formatted_result) ==
    LET routes_data == formatted_result.routes IN
    UNION {{routes_data[k].stops[i].job_id :
                i \in {p \in DOMAIN routes_data[k].stops :
                          Truthy(routes_data[k].stops[p].job_id)}} :
           k \in DOMAIN routes_data}

\* the routes of the result that hold job_id
RoutesOfJob(formatted_result, job_id) ==
    {k \in DOMAIN formatted_result.routes :
        \E i \in DOMAIN formatted_result.routes[k].stops :
            formatted_result.routes[k].stops[i].job_id = job_id}

Max(S) == CHOOSE x \in S : \A y \in S : y <= x

\* RouteStorage.store_routes, lines 51-58: job_assignments, the last route wins
JobAssignments(formatted_result) ==
    [j \in JobIdsToAssign(formatted_result) |->
        formatted_result.routes[Max(RoutesOfJob(formatted_result, j))].team_member_id]

\* RouteStorage.store_routes, lines 86-114: stops_create_data of one route
StopsCreateData(route_data) ==
    LET depot_start == [job_id |-> 0, stop_type |-> "depot_start",
                        sequence_order |-> 0,
                        planned_arrival_time |-> NoDatetime]
        \* enumerate(route_data["stops"], start=1), kept where job_id is truthy
        job_stops ==
            SelectSeq([i \in DOMAIN route_data.stops |->
                          [job_id |-> route_data.stops[i].job_id,
                           stop_type |-> "job",
                           sequence_order |-> i,
                           planned_arrival_time |-> route_data.stops[i].arrival_time]],
                      LAMBDA st : Truthy(st.job_id))
        so_far == <<depot_start>> \o job_stops
    IN  so_far \o <<[job_id |-> 0, stop_type |-> "depot_end",
                     sequence_order |-> Len(so_far),
                     planned_arrival_time |-> NoDatetime]>>

\* RouteStorage.store_routes, lines 67-119: routes_to_create
RoutesToCreate(optimization_request_id, formatted_result, data) ==
    [k \in DOMAIN formatted_result.routes |->
        [route |-> [optimization_request_id |-> optimization_request_id,
                    driver_id |-> formatted_result.routes[k].team_member_id,
                    depot_id |-> data.depot_id],
         stops |-> StopsCreateData(formatted_result.routes[k])]]

\* route_crud.bulk_create_routes_with_stops: one Route row per entry, in order,
\* with ids from the route sequence, each with its RouteStop rows
BulkCreateRoutesWithStops(routes_with_stops, tenant_id, last_id) ==
    [k \in DOMAIN routes_with_stops |->
        [id |-> last_id + k,
         tenant_id |-> tenant_id,
         optimization_request_id |-> routes_with_stops[k].route.optimization_request_id,
         driver_id |-> routes_with_stops[k].route.driver_id,
         stops |-> routes_with_stops[k].stops]]

\* RouteStorage.store_routes, lines 132-138: job_routes
JobRoutes(created_routes, formatted_result) ==
    [j \in JobIdsToAssign(formatted_result) |->
        created_routes[Max(RoutesOfJob(formatted_result, j))].id]

\* crud/job.py:181-188: the keyword parameters bulk_update_assignments declares
BulkUpdateAssignmentsParams == {"db", "job_ids", "job_assignments", "tenant_id"}

\* route_storage.py:141-147: the keyword arguments store_routes passes
StoreRoutesCallKwargs ==
    {"db", "job_ids", "job_assignments", "job_routes", "tenant_id"}

\* a call with a keyword the function does not declare raises TypeError
\* before the body runs
CallRaisesTypeError(kwargs, params) == ~(kwargs \subseteq params)

\* CRUDJob.bulk_update_assignments, lines 204-223: the UPDATE statement
BulkUpdateAssignments(jobRows, job_ids, job_assignments, tenant_id) ==
    [j \in JobIds |->
        IF j \in job_ids /\ JobTable[j].tenant_id = tenant_id
        THEN [jobRows[j] EXCEPT !.status = "assigned",
                                !.assigned_to = job_assignments[j]]
        ELSE jobRows[j]]

(***************************************************************************)
(* State                                                                   *)
(***************************************************************************)
VARIABLES
    req,        \* the optimization_request table, by id (committed rows)
    req_seq,    \* the last id the table's sequence issued
    routes,     \* the committed Route rows, each with its RouteStop rows
    route_seq,  \* the last id the route sequence issued
    job,        \* the columns of the job table the pipeline writes
    queue,      \* the RQ queue: the enqueued worker calls, oldest first
    deliveries, \* how many times each request id was handed to a worker
    worker,     \* each worker process: its place in run_optimization_worker
    svc_queue,  \* OptimizationService.queue is set (not None)
    response,   \* what the last submit call answered
    fmt,        \* the engine's components on their own (SpecFmt, SpecLoad)
    tomtom,     \* a matrix call of the TomTom client (SpecTomTom)
    brk         \* the break constraints of a roster and what is read back (SpecBreak)

vars == <<req, req_seq, routes, route_seq, job, queue, deliveries, worker,
          svc_queue, response, fmt, tomtom, brk>>

RequestIds == 1..MaxReq

\* an id the sequence has not issued, or whose row was never inserted
NoRow ==
    [tenant_id |-> 0, depot_id |-> 0, job_ids |-> <<>>, team_member_ids |-> <<>>,
     optimization_goal |-> NoneVal, route_name |-> NoneVal,
     status |-> "absent", started_at |-> 0,
     completed_at |-> 0, error_message |-> NoneVal, result |-> NoResult]

\* the body of a submit call (schemas/optimization.py:7-17)
SubmitInputs ==
    {[tenant_id |-> TenantA, depot_id |-> 1, job_ids |-> <<1, 2>>,
      team_member_ids |-> <<1>>, optimization_goal |-> "minimum_time",
      route_name |-> "dec 1"],
     [tenant_id |-> TenantA, depot_id |-> 1, job_ids |-> <<3>>,
      team_member_ids |-> <<1>>, optimization_goal |-> "minimum_time",
      route_name |-> "dec 1"],
     [tenant_id |-> TenantA, depot_id |-> 1, job_ids |-> <<>>,
      team_member_ids |-> <<1>>, optimization_goal |-> "minimum_time",
      route_name |-> "dec 1"],
     [tenant_id |-> TenantA, depot_id |-> 3, job_ids |-> <<1>>,
      team_member_ids |-> <<1>>, optimization_goal |-> "minimum_time",
      route_name |-> "dec 1"],
     [tenant_id |-> TenantA, depot_id |-> 1, job_ids |-> <<4>>,
      team_member_ids |-> <<1>>, optimization_goal |-> "minimum_time",
      route_name |-> "dec 1"]}

IdleWorker ==
    [pc |-> "idle", request_id |-> 0, tenant_id |-> 0, run |-> 0,
     data |-> NoData, result |-> NoResult, created |-> <<>>,
     error |-> NoneVal, pending |-> {}, tx_failed |-> FALSE]

NoSolution == [routes |-> <<>>, unassigned_jobs |-> <<>>]

FmtIdle ==
    [stage |-> "off", depot_id |-> 0, job_ids |-> <<>>, team_member_ids |-> <<>>,
     error |-> NoneVal, data |-> NoData, solution |-> NoSolution,
     result |-> NoResult, routes_to_create |-> <<>>]

BrkIdle ==
    [stage |-> "off", team_members |-> <<>>, error |-> NoneVal,
     intervals |-> <<>>, break_info |-> <<>>]

TomTomIdle ==
    [pc |-> "off", jobs |-> 0, endpoint |-> NoneVal, attempts |-> 0,
     slept |-> 0, state |-> NoneVal, error |-> NoneVal]

Init ==
    /\ req = [id \in RequestIds |-> NoRow]
    /\ req_seq = 0
    /\ routes = {}
    /\ route_seq = 0
    /\ job = [j \in JobIds |-> [status |-> "draft", assigned_to |-> 0, route_id |-> 0]]
    /\ queue = <<>>
    /\ deliveries = [id \in RequestIds |-> 0]
    /\ worker = [w \in WorkerIds |-> IdleWorker]
    /\ svc_queue \in BOOLEAN
    /\ response = [status |-> NoneVal, request_id |-> 0]
    /\ fmt = FmtIdle
    /\ tomtom = TomTomIdle
    /\ brk = BrkIdle

(***************************************************************************)
(* Request store (crud/base.py, crud/optimization_request.py)              *)
(***************************************************************************)
\* CRUDBase.get on the optimization_request table: the id, or 0 for None
Get(rows, id, tenant_id) ==
    IF id \in DOMAIN rows /\ rows[id].status # "absent" /\ rows[id].tenant_id = tenant_id
    THEN id ELSE 0

\* update_status without the write of error_message
UpdateStatusKeepMessage(rows, request_id, tenant_id, status, started_at, completed_at, error_message) ==
    IF Get(rows, request_id, tenant_id) = 0 THEN rows
    ELSE [rows EXCEPT ![request_id] =
            [@ EXCEPT !.status = status,
                      !.started_at = IF Truthy(started_at) THEN started_at ELSE @,
                      !.completed_at = IF Truthy(completed_at) THEN completed_at ELSE @]]

\* CRUDOptimizationRequest.update_status, lines 44-54: the row as written
UpdateStatus(rows, request_id, tenant_id, status, started_at, completed_at, error_message) ==
    IF Get(rows, request_id, tenant_id) = 0 THEN rows
    ELSE [rows EXCEPT ![request_id] =
            [@ EXCEPT !.status = status,
                      !.started_at = IF Truthy(started_at) THEN started_at ELSE @,
                      !.completed_at = IF Truthy(completed_at) THEN completed_at ELSE @,
                      !.error_message = IF TruthyStr(error_message)
                                        THEN error_message ELSE @]]

\* CRUDOptimizationRequest.store_result, lines 81-85
StoreResultRow(rows, request_id, tenant_id, result) ==
    IF Get(rows, request_id, tenant_id) = 0 THEN rows
    ELSE [rows EXCEPT ![request_id].result = result]

(***************************************************************************)
(* Submitter (services/optimization.py:39-98)                              *)
(***************************************************************************)
\* the Field(..., min_length=1) constraints of OptimizationRequestCreate
SchemaValid(inp) == Len(inp.job_ids) >= 1 /\ Len(inp.team_member_ids) >= 1

\* CRUDBase.create: the row inserted, status defaulting to queued
NewRow(inp) ==
    [tenant_id |-> inp.tenant_id, depot_id |-> inp.depot_id,
     job_ids |-> inp.job_ids, team_member_ids |-> inp.team_member_ids,
     optimization_goal |-> inp.optimization_goal,
     route_name |-> inp.route_name, status |-> "queued",
     started_at |-> 0, completed_at |-> 0, error_message |-> NoneVal,
     result |-> NoResult]

\* OptimizationService.create_optimization_request, behind the router and
\* the schema. reconnect_ok: the reconnect of lines 78-80 succeeds;
\* enqueue_ok: queue.enqueue of line 88 reaches Redis.
Submit(inp, reconnect_ok, enqueue_ok) ==
    /\ req_seq < MaxReq
    /\ UNCHANGED <<routes, route_seq, job, deliveries, worker, fmt, tomtom, brk>>
    /\ IF ~SchemaValid(inp)
       THEN /\ response' = [status |-> "ValidationError", request_id |-> 0]
            /\ UNCHANGED <<req, req_seq, queue, svc_queue>>
       ELSE IF inp.depot_id \notin DOMAIN DepotTable
       THEN \* the foreign key of depot_id rejects the INSERT; the id is spent
            /\ response' = [status |-> "IntegrityError", request_id |-> 0]
            /\ req_seq' = req_seq + 1
            /\ UNCHANGED <<req, queue, svc_queue>>
       ELSE LET id == req_seq + 1 IN
            /\ req_seq' = id
            /\ req' = [req EXCEPT ![id] = NewRow(inp)]
            /\ IF ~svc_queue /\ ~reconnect_ok
               THEN /\ response' = [status |-> "ServiceUnavailable", request_id |-> 0]
                    /\ UNCHANGED <<queue, svc_queue>>
               ELSE /\ svc_queue' = TRUE
                    /\ IF enqueue_ok
                       THEN /\ queue' = Append(queue, [request_id |-> id,
                                                       tenant_id |-> inp.tenant_id])
                            /\ response' = [status |-> "Created", request_id |-> id]
                       ELSE /\ response' = [status |-> "ConnectionError", request_id |-> 0]
                            /\ UNCHANGED queue

(***************************************************************************)
(* Worker queue                                                            *)
(***************************************************************************)
InQueue(id) == \E i \in DOMAIN queue : queue[i].request_id = id

Running(id) == \E w \in WorkerIds : worker[w].pc # "idle" /\ worker[w].request_id = id

\* a worker takes the oldest call off the queue
Dequeue(w) ==
    /\ worker[w].pc = "idle"
    /\ queue # <<>>
    /\ LET call == Head(queue) IN
        /\ worker' = [worker EXCEPT ![w] =
                        [IdleWorker EXCEPT !.pc = "start",
                                           !.request_id = call.request_id,
                                           !.tenant_id = call.tenant_id,
                                           !.run = deliveries[call.request_id] + 1]]
        /\ deliveries' = [deliveries EXCEPT ![call.request_id] = @ + 1]
    /\ queue' = Tail(queue)
    /\ UNCHANGED <<req, req_seq, routes, route_seq, job, svc_queue, response, fmt, tomtom, brk>>

\* at-least-once delivery: a call that was delivered, and that no worker is
\* running, is put back on the queue
Redeliver(id) ==
    /\ deliveries[id] > 0
    /\ deliveries[id] < MaxDeliveries
    /\ ~InQueue(id)
    /\ ~Running(id)
    /\ queue' = Append(queue, [request_id |-> id, tenant_id |-> req[id].tenant_id])
    /\ UNCHANGED <<req, req_seq, routes, route_seq, job, deliveries, worker,
                   svc_queue, response, fmt, tomtom, brk>>

(***************************************************************************)
(* Worker: run_optimization_worker (services/optimization.py:150-336)      *)
(*                                                                         *)
(* The worker's session is opened with autocommit off and is never rolled  *)
(* back by the function. worker[w].pending holds the rows the session has  *)
(* flushed and not yet committed: the next commit of the session writes    *)
(* them, db.close() drops them. worker[w].tx_failed: a statement of the    *)
(* session failed, and until a rollback every further statement raises.    *)
(***************************************************************************)
\* datetime.utcnow(), as a logical time: the ordinal of the run reading it
Now(w) == worker[w].run

\* raise: control goes to the except clause of line 317
Throw(w, msg) == [worker[w] EXCEPT !.pc = "except", !.error = msg]

\* db.commit(): the flushed rows of the session become visible
CommitPending(w) == routes' = routes \cup worker[w].pending

\* the schedules the lifecycle model lets the solver answer with: the routes
\* that leave at midnight or at 00:01 and never wait
LifecycleStarts == {0, 60}
LifecycleSlacks == {0}

\* lines 195-208: update_status(PROCESSING, started_at=utcnow()), then get
StartProcessing(w) ==
    /\ worker[w].pc = "start"
    /\ LET id == worker[w].request_id
           t == worker[w].tenant_id
       IN  /\ req' = UpdateStatus(req, id, t, "processing", Now(w), 0, NoneVal)
           /\ worker' = [worker EXCEPT ![w] =
                IF Get(req, id, t) = 0
                THEN Throw(w, "Optimization request not found")
                ELSE [@ EXCEPT !.pc = "load"]]
    /\ UNCHANGED <<req_seq, routes, route_seq, job, queue, deliveries,
                   svc_queue, response, fmt, tomtom, brk>>

\* lines 227-236: data_loader.load
LoadData(w) ==
    /\ worker[w].pc = "load"
    /\ LET row == req[worker[w].request_id]
           res == Load(job, row.depot_id, row.job_ids, row.team_member_ids,
                       worker[w].tenant_id)
       IN  worker' = [worker EXCEPT ![w] =
                IF res.error # NoneVal THEN Throw(w, res.error)
                ELSE [@ EXCEPT !.pc = "matrix", !.data = res.data]]
    /\ UNCHANGED <<req, req_seq, routes, route_seq, job, queue, deliveries,
                   svc_queue, response, fmt, tomtom, brk>>

\* graphhopper_client.py:135-137: the exception of a failed matrix call
MatrixFailed == "GraphHopper API failed: 500"

\* the except clause without its update_status call
HandleExceptionSilently(w) ==
    /\ worker[w].pc = "except"
    /\ worker' = [worker EXCEPT ![w] = IdleWorker]
    /\ UNCHANGED <<req, req_seq, routes, route_seq, job, queue, deliveries,
                   svc_queue, response, fmt, tomtom, brk>>

\* lines 238-263: the matrix call of the routing provider answers or fails
GetMatrix(w, ok) ==
    /\ worker[w].pc = "matrix"
    /\ worker' = [worker EXCEPT ![w] =
            IF ok THEN [@ EXCEPT !.pc = "solve"]
            ELSE Throw(w, MatrixFailed)]
    /\ UNCHANGED <<req, req_seq, routes, route_seq, job, queue, deliveries,
                   svc_queue, response, fmt, tomtom, brk>>

\* lines 265-277: solver.solve finds no solution
SolveNone(w) ==
    /\ worker[w].pc = "solve"
    /\ worker' = [worker EXCEPT ![w] = Throw(w, "No feasible solution found")]
    /\ UNCHANGED <<req, req_seq, routes, route_seq, job, queue, deliveries,
                   svc_queue, response, fmt, tomtom, brk>>

\* lines 265-282: solver.solve answers, and the formatter formats the answer
SolveAndFormat(w) ==
    /\ worker[w].pc = "solve"
    /\ \E a \in SolverAssignments(worker[w].data, LifecycleStarts, LifecycleSlacks) :
        LET solution == ExtractSolution(worker[w].data, a) IN
        \E polyline_outcomes \in [DOMAIN solution.routes -> PolylineOutcomes] :
            worker' = [worker EXCEPT ![w] =
                [@ EXCEPT !.pc = "store_result",
                          !.result = Format(worker[w].data, solution,
                                            polyline_outcomes)]]
    /\ UNCHANGED <<req, req_seq, routes, route_seq, job, queue, deliveries,
                   svc_queue, response, fmt, tomtom, brk>>

\* lines 284-291: store_result commits the result on the request row, or the
\* database fails the statement
StoreResult(w, db_ok) ==
    /\ worker[w].pc = "store_result"
    /\ IF db_ok
       THEN /\ req' = StoreResultRow(req, worker[w].request_id,
                                     worker[w].tenant_id, worker[w].result)
            /\ worker' = [worker EXCEPT ![w].pc = "store_routes"]
       ELSE /\ worker' = [worker EXCEPT ![w] =
                            [Throw(w, "database error") EXCEPT !.tx_failed = TRUE]]
            /\ UNCHANGED req
    /\ UNCHANGED <<req_seq, routes, route_seq, job, queue, deliveries,
                   svc_queue, response, fmt, tomtom, brk>>

\* RouteStorage.store_routes, lines 60-65: every job to assign is still there
JobsExist(job_ids, tenant_id) ==
    \A j \in job_ids : j \in JobIds /\ JobTable[j].tenant_id = tenant_id

\* RouteStorage.store_routes, lines 42-126: up to and with the bulk create of
\* the Route and RouteStop rows. created: the bulk create commits (committed),
\* only flushes, or fails.
StoreRoutes(w, created) ==
    /\ worker[w].pc = "store_routes"
    /\ LET result == worker[w].result
           t == worker[w].tenant_id
           rows == BulkCreateRoutesWithStops(
                       RoutesToCreate(worker[w].request_id, result, worker[w].data),
                       t, route_seq)
       IN  IF result.routes = <<>>
           THEN \* lines 44-47: nothing to store, store_routes returns []
                /\ worker' = [worker EXCEPT ![w].pc = "complete"]
                /\ UNCHANGED <<routes, route_seq>>
           ELSE IF ~JobsExist(JobIdsToAssign(result), t)
           THEN /\ worker' = [worker EXCEPT ![w] = Throw(w, "Job not found for tenant")]
                /\ UNCHANGED <<routes, route_seq>>
           ELSE /\ route_seq' = route_seq + Len(rows)
                /\ CASE created = "committed" ->
                          /\ routes' = routes \cup worker[w].pending \cup Range(rows)
                          /\ worker' = [worker EXCEPT ![w].pc = "update_jobs",
                                                      ![w].created = rows,
                                                      ![w].pending = {}]
                     [] created = "flushed" ->
                          /\ UNCHANGED routes
                          /\ worker' = [worker EXCEPT ![w].pc = "update_jobs",
                                                      ![w].created = rows,
                                                      ![w].pending = @ \cup Range(rows)]
                     [] created = "failed" ->
                          /\ UNCHANGED routes
                          /\ worker' = [worker EXCEPT ![w] =
                                [Throw(w, "database error") EXCEPT !.tx_failed = TRUE]]
    /\ UNCHANGED <<req, req_seq, job, queue, deliveries, svc_queue, response, fmt, tomtom, brk>>

\* RouteStorage.store_routes, lines 128-154: the call of
\* job_crud.bulk_update_assignments, which commits
UpdateJobs(w) ==
    /\ worker[w].pc = "update_jobs"
    /\ IF CallRaisesTypeError(StoreRoutesCallKwargs, BulkUpdateAssignmentsParams)
       THEN /\ worker' = [worker EXCEPT ![w] =
                Throw(w, "bulk_update_assignments() got an unexpected keyword argument 'job_routes'")]
            /\ UNCHANGED <<job, routes>>
       ELSE /\ job' = BulkUpdateAssignments(job, JobIdsToAssign(worker[w].result),
                                            JobAssignments(worker[w].result),
                                            worker[w].tenant_id)
            /\ CommitPending(w)
            /\ worker' = [worker EXCEPT ![w].pc = "complete", ![w].pending = {}]
    /\ UNCHANGED <<req, req_seq, route_seq, queue, deliveries, svc_queue,
                   response, fmt, tomtom, brk>>

\* lines 306-315 and 334-336: update_status(COMPLETED, completed_at=utcnow()),
\* then the session is closed and the function returns
Complete(w) ==
    /\ worker[w].pc = "complete"
    /\ req' = UpdateStatus(req, worker[w].request_id, worker[w].tenant_id,
                           "completed", 0, Now(w), NoneVal)
    /\ CommitPending(w)
    /\ worker' = [worker EXCEPT ![w] = IdleWorker]
    /\ UNCHANGED <<req_seq, route_seq, job, queue, deliveries, svc_queue,
                   response, fmt, tomtom, brk>>

\* lines 317-336: the except clause. update_status(FAILED, ...) runs on the
\* same session: it commits what the session flushed, and when the session is
\* in a failed transaction it raises itself, which line 331 swallows. Then
\* the session is closed and the function returns.
HandleException(w) ==
    /\ worker[w].pc = "except"
    /\ IF worker[w].tx_failed
       THEN UNCHANGED <<req, routes>>
       ELSE /\ req' = UpdateStatus(req, worker[w].request_id, worker[w].tenant_id,
                                   "failed", 0, Now(w), worker[w].error)
            /\ CommitPending(w)
    /\ worker' = [worker EXCEPT ![w] = IdleWorker]
    /\ UNCHANGED <<req_seq, route_seq, job, queue, deliveries, svc_queue,
                   response, fmt, tomtom, brk>>

Next ==
    \/ \E inp \in SubmitInputs, reconnect_ok, enqueue_ok \in BOOLEAN :
          Submit(inp, reconnect_ok, enqueue_ok)
    \/ \E w \in WorkerIds : Dequeue(w)
    \/ \E id \in RequestIds : Redeliver(id)
    \/ \E w \in WorkerIds : StartProcessing(w)
    \/ \E w \in WorkerIds : LoadData(w)
    \/ \E w \in WorkerIds, ok \in BOOLEAN : GetMatrix(w, ok)
    \/ \E w \in WorkerIds : SolveNone(w)
    \/ \E w \in WorkerIds : SolveAndFormat(w)
    \/ \E w \in WorkerIds, db_ok \in BOOLEAN : StoreResult(w, db_ok)
    \/ \E w \in WorkerIds, created \in {"committed", "flushed", "failed"} :
          StoreRoutes(w, created)
    \/ \E w \in WorkerIds : UpdateJobs(w)
    \/ \E w \in WorkerIds : Complete(w)
    \/ \E w \in WorkerIds : HandleException(w)

Spec == Init /\ [][Next]_vars

(***************************************************************************)
(* The engine on its own: load, solve, format and the rows store_routes    *)
(* builds, for one request of tenant A against the fixture, over a wider   *)
(* set of drivers and of schedules than the lifecycle model explores.      *)
(***************************************************************************)
FmtJobLists == {<<1>>, <<2>>, <<1, 2>>, <<2, 1>>, <<1, 1>>, <<3>>, <<4>>}
FmtTeamLists == {<<1>>, <<2>>, <<3>>, <<1, 2>>, <<2, 3>>, <<6>>, <<1, 6>>}

\* the start cumuls and the waiting times the solver may answer with
FmtStarts == {0, 60}
FmtSlacks == {60 * k : k \in 0..MaxWait}

InitFmt ==
    /\ req = [id \in RequestIds |-> NoRow]
    /\ req_seq = 0
    /\ routes = {}
    /\ route_seq = 0
    /\ job = [j \in JobIds |-> [status |-> "draft", assigned_to |-> 0, route_id |-> 0]]
    /\ queue = <<>>
    /\ deliveries = [id \in RequestIds |-> 0]
    /\ worker = [w \in WorkerIds |-> IdleWorker]
    /\ svc_queue = TRUE
    /\ response = [status |-> NoneVal, request_id |-> 0]
    /\ tomtom = TomTomIdle
    /\ brk = BrkIdle
    /\ \E js \in FmtJobLists, ts \in FmtTeamLists :
          fmt = [FmtIdle EXCEPT !.stage = "input", !.depot_id = 1,
                                !.job_ids = js, !.team_member_ids = ts]

FmtUnchanged ==
    UNCHANGED <<req, req_seq, routes, route_seq, job, queue, deliveries, worker,
                svc_queue, response, tomtom, brk>>

\* OptimizationDataLoader.load
FmtLoad ==
    /\ fmt.stage = "input"
    /\ LET res == Load(job, fmt.depot_id, fmt.job_ids, fmt.team_member_ids,
                       TenantA) IN
       fmt' = IF res.error # NoneVal
              THEN [fmt EXCEPT !.stage = "rejected", !.error = res.error]
              ELSE [fmt EXCEPT !.stage = "loaded", !.data = res.data]
    /\ FmtUnchanged

\* VRPSolver.solve: an assignment and _extract_solution of it
FmtSolve ==
    /\ fmt.stage = "loaded"
    /\ \E a \in SolverAssignments(fmt.data, FmtStarts, FmtSlacks) :
          fmt' = [fmt EXCEPT !.stage = "solved",
                             !.solution = ExtractSolution(fmt.data, a)]
    /\ FmtUnchanged

\* ResultFormatter.format
FmtFormat ==
    /\ fmt.stage = "solved"
    /\ \E polyline_outcomes \in [DOMAIN fmt.solution.routes -> PolylineOutcomes] :
          fmt' = [fmt EXCEPT !.stage = "formatted",
                             !.result = Format(fmt.data, fmt.solution,
                                               polyline_outcomes)]
    /\ FmtUnchanged

\* RouteStorage.store_routes, lines 67-119: routes_to_create
FmtStoreRoutes ==
    /\ fmt.stage = "formatted"
    /\ fmt.result.routes # <<>>
    /\ fmt' = [fmt EXCEPT !.stage = "stored",
                          !.routes_to_create = RoutesToCreate(1, fmt.result, fmt.data)]
    /\ FmtUnchanged

NextFmt == FmtLoad \/ FmtSolve \/ FmtFormat \/ FmtStoreRoutes

SpecFmt == InitFmt /\ [][NextFmt]_vars

(***************************************************************************)
(* Properties                                                              *)
(***************************************************************************)
Terminal(status) == status \in {"completed", "failed"}

\* the Route rows of request r that are committed
RoutesOf(r) == {row \in routes : row.optimization_request_id = r}

\* the job ids a result names: on the stops of its routes, in order, and
\* then in unassigned_jobs
StopJobIds(result) ==
    Flatten([k \in DOMAIN result.routes |->
        SelectSeq([i \in DOMAIN result.routes[k].stops |->
                      result.routes[k].stops[i].job_id],
                  LAMBDA j : j # 0)])

ResultJobIds(result) ==
    StopJobIds(result) \o
    [i \in DOMAIN result.unassigned_jobs |-> result.unassigned_jobs[i].job_id]

\* C1: a completed request has a result and the Route rows of every route of
\* the result; a failed request has no result and no Route row.
NoPartialResult ==
    \A r \in RequestIds :
        /\ req[r].status = "completed" =>
              /\ req[r].result # NoResult
              /\ \A k \in DOMAIN req[r].result.routes :
                    \E row \in RoutesOf(r) :
                        row.driver_id = req[r].result.routes[k].team_member_id
        /\ req[r].status = "failed" =>
              /\ req[r].result = NoResult
              /\ RoutesOf(r) = {}

\* C2: once a request is completed or failed, no step changes its status,
\* started_at, completed_at, error_message or result.
TerminalImmutable ==
    [][\A r \in RequestIds :
          Terminal(req[r].status) =>
              /\ req'[r].status = req[r].status
              /\ req'[r].started_at = req[r].started_at
              /\ req'[r].completed_at = req[r].completed_at
              /\ req'[r].error_message = req[r].error_message
              /\ req'[r].result = req[r].result]_vars

\* C3: every row with status queued has had its id enqueued, and a submit
\* answered with ServiceUnavailable leaves no queued row that was not.
QueuedRowsEnqueued ==
    \A r \in RequestIds :
        req[r].status = "queued" => InQueue(r) \/ deliveries[r] > 0

\* a request body the submitter is to reject: no job, or a job, driver or
\* depot that is not the tenant's, or a job without location
Malformed(row) ==
    \/ row.job_ids = <<>>
    \/ row.team_member_ids = <<>>
    \/ row.depot_id \notin DOMAIN DepotTable
    \/ DepotTable[row.depot_id].tenant_id # row.tenant_id
    \/ \E i \in DOMAIN row.job_ids :
          \/ row.job_ids[i] \notin JobIds
          \/ JobTable[row.job_ids[i]].tenant_id # row.tenant_id
          \/ ~JobTable[row.job_ids[i]].location
    \/ \E i \in DOMAIN row.team_member_ids :
          \/ row.team_member_ids[i] \notin TeamMemberIds
          \/ TeamMemberTable[row.team_member_ids[i]].tenant_id # row.tenant_id

\* C4: a malformed submit inserts no row and enqueues no id: no row of the
\* store, and so no call of the queue, is for a malformed request.
NoMalformedRow ==
    \A r \in RequestIds : req[r].status # "absent" => ~Malformed(req[r])

\* C5: the RouteStops of a Route with k job stops have the sequence_order
\* values 0..k+1 in order: depot_start 0, the job stops 1..k, depot_end k+1.
SequenceOrderContiguous ==
    fmt.stage = "stored" =>
        \A r \in DOMAIN fmt.routes_to_create :
            LET st == fmt.routes_to_create[r].stops
                n == Len(st)
            IN  /\ n >= 2
                /\ st[1].stop_type = "depot_start"
                /\ st[n].stop_type = "depot_end"
                /\ \A i \in 1..n : st[i].sequence_order = i - 1
                /\ \A i \in 2..(n - 1) : st[i].stop_type = "job"

\* C6: when store_routes has created the Route rows of a result and has run
\* its job update, every job the result assigns has status assigned, the
\* route_id of a Route of that request and that Route's driver as
\* assigned_to, which is what a completed request is to show of its jobs.
JobsAssignedWithRoute ==
    [][\A w \in WorkerIds :
          (worker[w].pc = "update_jobs" /\ worker'[w].pc # "update_jobs") =>
              \A j \in JobIdsToAssign(worker[w].result) :
                  /\ job'[j].status = "assigned"
                  /\ \E row \in routes' :
                        /\ row.optimization_request_id = worker[w].request_id
                        /\ row.id = job'[j].route_id
                        /\ row.driver_id = job'[j].assigned_to]_vars

\* C7: the job ids on the stops of the routes of a stored result, with those
\* of unassigned_jobs, are the request's job_ids, each exactly once. Stated
\* of every row that holds a result, which the completed rows are among.
ResultPartitionsJobs ==
    \A r \in RequestIds :
        req[r].result # NoResult =>
            LET ids == ResultJobIds(req[r].result) IN
            /\ Range(ids) = Range(req[r].job_ids)
            /\ Len(ids) = Len(req[r].job_ids)
            /\ Cardinality(Range(ids)) = Len(ids)

\* C7, its case: a completed request with two jobs holds its result
CompletedWithResult ==
    \E r \in RequestIds :
        /\ req[r].status = "completed"
        /\ req[r].result # NoResult
        /\ Len(req[r].job_ids) = 2
        /\ Len(ResultJobIds(req[r].result)) = 2

\* a datetime as seconds since midnight of the scheduled date
DatetimeSeconds(dt) == dt.day * 86400 + dt.sec

\* C8: along every route of a formatted result, each stop is reached no
\* earlier than the stop before it plus its service and the time to next.
ArrivalsConsistent ==
    fmt.stage \in {"formatted", "stored"} =>
        \A k \in DOMAIN fmt.result.routes :
            LET st == fmt.result.routes[k].stops IN
            \A i \in 1..(Len(st) - 1) :
                DatetimeSeconds(st[i + 1].arrival_time) >=
                    DatetimeSeconds(st[i].arrival_time)
                    + st[i].service_duration_minutes * 60
                    + st[i].time_to_next_stop_seconds

\* C9: the Route rows of a request are committed only together with its job
\* updates: where a Route row is, the request has not failed and the jobs on
\* the stops of the row are assigned.
RouteWritesAtomic ==
    \A row \in routes :
        /\ req[row.optimization_request_id].status # "failed"
        /\ \A i \in DOMAIN row.stops :
              row.stops[i].job_id # 0 => job[row.stops[i].job_id].status = "assigned"

\* C10: when the except clause of the worker has run, the request is failed,
\* with completed_at set and the message of the exception as error_message.
FailureRecorded ==
    [][\A w \in WorkerIds :
          (worker[w].pc = "except" /\ worker'[w].pc = "idle") =>
              LET row == req'[worker[w].request_id] IN
              /\ row.status = "failed"
              /\ row.completed_at = worker[w].run
              /\ row.error_message = worker[w].error]_vars

(***************************************************************************)
(* Faults of a worker run: the job timeout RQ enforces on the call         *)
(* (job_timeout='5m', services/optimization.py:93) and the death of the    *)
(* worker process. Explored for the requests of one tenant with the        *)
(* lifecycle steps above, and with the scheduling of the worker: a worker  *)
(* that is alive takes its next step, an idle worker takes a waiting call. *)
(***************************************************************************)
\* submit calls explored together with the faults
MaxFaultReq == 1

\* str() of the JobTimeoutException RQ raises inside the running call
TimeoutMessage == "Task exceeded maximum timeout value (300 seconds)"

\* the places of the try block of lines 192-315
PipelineSteps ==
    {"start", "load", "matrix", "solve", "store_result", "store_routes",
     "update_jobs", "complete"}

\* the 5 minutes are over while the call is in the try block: the exception
\* is raised there and control goes to the except clause
Timeout(w) ==
    /\ worker[w].pc \in PipelineSteps
    /\ worker' = [worker EXCEPT ![w] = Throw(w, TimeoutMessage)]
    /\ UNCHANGED <<req, req_seq, routes, route_seq, job, queue, deliveries,
                   svc_queue, response, fmt, tomtom, brk>>

\* the worker process dies: what its session did not commit is lost, what
\* it committed stays, and no line of the function runs any more
Crash(w) ==
    /\ worker[w].pc # "idle"
    /\ worker' = [worker EXCEPT ![w] = IdleWorker]
    /\ UNCHANGED <<req, req_seq, routes, route_seq, job, queue, deliveries,
                   svc_queue, response, fmt, tomtom, brk>>

WorkerStep(w) ==
    \/ StartProcessing(w)
    \/ LoadData(w)
    \/ \E ok \in BOOLEAN : GetMatrix(w, ok)
    \/ SolveNone(w)
    \/ SolveAndFormat(w)
    \/ \E db_ok \in BOOLEAN : StoreResult(w, db_ok)
    \/ \E created \in {"committed", "flushed", "failed"} : StoreRoutes(w, created)
    \/ UpdateJobs(w)
    \/ Complete(w)
    \/ HandleException(w)

SubmitFault ==
    /\ req_seq < MaxFaultReq
    /\ \E inp \in SubmitInputs, reconnect_ok, enqueue_ok \in BOOLEAN :
          Submit(inp, reconnect_ok, enqueue_ok)

NextFault ==
    \/ SubmitFault
    \/ \E w \in WorkerIds : Dequeue(w)
    \/ \E id \in RequestIds : Redeliver(id)
    \/ \E w \in WorkerIds : WorkerStep(w)
    \/ \E w \in WorkerIds : Timeout(w)
    \/ \E w \in WorkerIds : Crash(w)

SpecFault ==
    /\ Init
    /\ [][NextFault]_vars
    /\ \A w \in WorkerIds : WF_vars(WorkerStep(w)) /\ WF_vars(Dequeue(w))

\* C11: every request that is processing becomes completed or failed.
ProcessingEnds ==
    \A r \in RequestIds :
        (req[r].status = "processing") ~> Terminal(req[r].status)

MatrixFailureRecorded ==
    [][\A w \in WorkerIds :
          (/\ worker[w].pc = "except"
           /\ worker[w].error = MatrixFailed
           /\ worker'[w].pc = "idle") =>
              LET row == req'[worker[w].request_id] IN
              /\ row.status = "failed"
              /\ TruthyStr(row.error_message)
              /\ routes' = routes
              /\ \A i \in DOMAIN row.job_ids :
                    job'[row.job_ids[i]] = job[row.job_ids[i]]]_vars

\* C13, its case: a request is failed by the matrix call, its jobs draft
FailedByMatrix ==
    \E r \in RequestIds :
        /\ req[r].status = "failed"
        /\ req[r].error_message = MatrixFailed
        /\ RoutesOf(r) = {}
        /\ \A i \in DOMAIN req[r].job_ids : job[req[r].job_ids[i]].status = "draft"

(***************************************************************************)
(* Two tenants: the calls of the service made by A and by B, and the       *)
(* worker runs of their requests.                                          *)
(***************************************************************************)
TenantIds == {TenantA, TenantB}

\* submit bodies of A (its own rows; B's job; B's depot; B's driver) and of B
TenantInputs ==
    {[tenant_id |-> TenantA, depot_id |-> 1, job_ids |-> <<1>>,
      team_member_ids |-> <<1>>, optimization_goal |-> "minimum_time",
      route_name |-> "dec 1"],
     [tenant_id |-> TenantA, depot_id |-> 1, job_ids |-> <<1, 3>>,
      team_member_ids |-> <<1>>, optimization_goal |-> "minimum_time",
      route_name |-> "dec 1"],
     [tenant_id |-> TenantA, depot_id |-> 2, job_ids |-> <<1>>,
      team_member_ids |-> <<1>>, optimization_goal |-> "minimum_time",
      route_name |-> "dec 1"],
     [tenant_id |-> TenantA, depot_id |-> 1, job_ids |-> <<1>>,
      team_member_ids |-> <<4>>, optimization_goal |-> "minimum_time",
      route_name |-> "dec 1"],
     [tenant_id |-> TenantB, depot_id |-> 2, job_ids |-> <<3>>,
      team_member_ids |-> <<4>>, optimization_goal |-> "minimum_time",
      route_name |-> "dec 1"]}

SubmitTenant ==
    \E inp \in TenantInputs, reconnect_ok, enqueue_ok \in BOOLEAN :
        Submit(inp, reconnect_ok, enqueue_ok)

\* OptimizationService.get_optimization_request, called by tenant_id
GetRequest(tenant_id, request_id) ==
    /\ response' =
         IF Get(req, request_id, tenant_id) = 0
         THEN [status |-> "NotFound", request_id |-> 0, tenant_id |-> tenant_id,
               ids |-> {}]
         ELSE [status |-> "Found", request_id |-> request_id,
               tenant_id |-> tenant_id, ids |-> {request_id}]
    /\ UNCHANGED <<req, req_seq, routes, route_seq, job, queue, deliveries,
                   worker, svc_queue, fmt, tomtom, brk>>

\* OptimizationService.get_optimization_requests, called by tenant_id
ListRequests(tenant_id) ==
    /\ response' =
         [status |-> "Found", request_id |-> 0, tenant_id |-> tenant_id,
          ids |-> {r \in RequestIds : Get(req, r, tenant_id) # 0}]
    /\ UNCHANGED <<req, req_seq, routes, route_seq, job, queue, deliveries,
                   worker, svc_queue, fmt, tomtom, brk>>

\* the names a rename call may give (OptimizationRequestUpdate.route_name)
NewNames == {"dec 2"}

\* PATCH /requests/{request_id} (routers/optimization.py:62-89): the router
\* calls optimization_service.update_optimization_request, an attribute the
\* OptimizationService of services/optimization.py does not have: the call
\* raises AttributeError before any row is read or written.
Rename(tenant_id, request_id, new_name) ==
    /\ response' = [status |-> "AttributeError", request_id |-> request_id,
                    tenant_id |-> tenant_id, ids |-> {}, route_name |-> new_name]
    /\ UNCHANGED <<req, req_seq, routes, route_seq, job, queue, deliveries,
                   worker, svc_queue, fmt, tomtom, brk>>

NextTenant ==
    \/ SubmitTenant
    \/ \E t \in TenantIds, id \in RequestIds, n \in NewNames : Rename(t, id, n)
    \/ \E t \in TenantIds, id \in RequestIds : GetRequest(t, id)
    \/ \E t \in TenantIds : ListRequests(t)
    \/ \E w \in WorkerIds : Dequeue(w)
    \/ \E w \in WorkerIds : WorkerStep(w)

SpecTenant == Init /\ [][NextTenant]_vars

\* what a worker run has read into its OptimizationData is its tenant's
ReadsOwnTenant ==
    \A w \in WorkerIds :
        worker[w].data # NoData =>
            /\ DepotTable[worker[w].data.depot_id].tenant_id = worker[w].tenant_id
            /\ \A i \in DOMAIN worker[w].data.jobs :
                  JobTable[worker[w].data.jobs[i]].tenant_id = worker[w].tenant_id
            /\ \A i \in DOMAIN worker[w].data.team_members :
                  TeamMemberTable[worker[w].data.team_members[i]].tenant_id
                      = worker[w].tenant_id

\* what a get or list call answers is the caller's
AnswersOwnTenant ==
    response.status = "Found" =>
        \A r \in response.ids : req[r].tenant_id = response.tenant_id

\* C14: no step reads a row of another tenant into a worker's data or into
\* the answer of a get or list call, and a job row changes only in the job
\* update of a run of its own tenant.
TenantIsolation ==
    [][/\ ReadsOwnTenant'
       /\ AnswersOwnTenant'
       /\ \A j \in JobIds :
             job'[j] # job[j] =>
                 \E w \in WorkerIds :
                     /\ worker[w].pc = "update_jobs"
                     /\ worker[w].tenant_id = JobTable[j].tenant_id]_vars

\* C14, its case: a request of A that names B's job has been run, and a
\* request of B is in the store while A is answered
ForeignJobRequested ==
    /\ \E r \in RequestIds :
          /\ req[r].tenant_id = TenantA
          /\ 3 \in Range(req[r].job_ids)
          /\ req[r].status = "failed"
    /\ \E r \in RequestIds : req[r].tenant_id = TenantB
    /\ response.status \in {"Found", "NotFound"}
    /\ response.tenant_id = TenantA

\* C15: a rename call on a request of the caller sets route_name to the new
\* name and leaves every other field of the row, and every Route, RouteStop
\* and job row, as it was.
RenameChangesNameOnly ==
    [][\A t \in TenantIds, id \in RequestIds, n \in NewNames :
          (Rename(t, id, n) /\ Get(req, id, t) # 0) =>
              /\ req' = [req EXCEPT ![id].route_name = n]
              /\ routes' = routes
              /\ job' = job]_vars

\* C16: a queued request has neither started_at nor completed_at, a
\* processing one has started_at only, a completed or failed one has both.
TimestampsMatchStatus ==
    \A r \in RequestIds :
        /\ req[r].status = "queued" =>
              req[r].started_at = 0 /\ req[r].completed_at = 0
        /\ req[r].status = "processing" =>
              req[r].started_at # 0 /\ req[r].completed_at = 0
        /\ Terminal(req[r].status) =>
              req[r].started_at # 0 /\ req[r].completed_at # 0

\* the requests other than r that name a job r names
Overlapping(r) ==
    {o \in RequestIds \ {r} :
        /\ req[o].status # "absent"
        /\ Range(req[o].job_ids) \cap Range(req[r].job_ids) # {}}

\* C17: runs of requests with overlapping job_ids interleave, and when the
\* job update of one of them is done, every job it assigns, shared with
\* another request or not, holds the route_id and the assigned_to this
\* update wrote: the last writer wins.
LastWriterWins ==
    [][\A w \in WorkerIds :
          (/\ worker[w].pc = "update_jobs"
           /\ worker'[w].pc # "update_jobs"
           /\ Overlapping(worker[w].request_id) # {}) =>
              \A j \in JobIdsToAssign(worker[w].result) :
                  /\ job'[j].route_id = JobRoutes(worker[w].created, worker[w].result)[j]
                  /\ job'[j].assigned_to = JobAssignments(worker[w].result)[j]]_vars

\* the Route rows of a request come from one run: one row per driver
RoutesOfOneRun ==
    \A r \in RequestIds :
        \A a, b \in RoutesOf(r) : a.driver_id = b.driver_id => a = b

\* C18: a request becomes processing only from queued, so once, and it
\* never owns Route rows written by two worker runs.
ClaimedOnce ==
    [][/\ \A r \in RequestIds :
             (req'[r].status = "processing" /\ req[r].status # "processing")
                 => req[r].status = "queued"
       /\ RoutesOfOneRun']_vars

(***************************************************************************)
(* OptimizationDataLoader.load on its own, for tenant A: over the depot,   *)
(* the job and driver lists of the request, and the status the job rows    *)
(* have when the worker loads them (jobs are edited through the job API).  *)
(***************************************************************************)
LoadDepotIds == {1, 2, 3, 4}
LoadJobLists == {<<>>, <<1>>, <<2>>, <<1, 2>>, <<2, 1>>, <<1, 1>>, <<1, 3>>, <<4>>, <<1, 5>>}
LoadTeamLists == {<<>>, <<1>>, <<1, 2>>, <<1, 1>>, <<4>>, <<5>>}
JobStatuses == {"draft", "assigned"}

InitLoad ==
    /\ req = [id \in RequestIds |-> NoRow]
    /\ req_seq = 0
    /\ routes = {}
    /\ route_seq = 0
    /\ \E s1, s2 \in JobStatuses :
          job = [j \in JobIds |->
                    [status |-> IF j = 1 THEN s1 ELSE IF j = 2 THEN s2 ELSE "draft",
                     assigned_to |-> 0, route_id |-> 0]]
    /\ queue = <<>>
    /\ deliveries = [id \in RequestIds |-> 0]
    /\ worker = [w \in WorkerIds |-> IdleWorker]
    /\ svc_queue = TRUE
    /\ response = [status |-> NoneVal, request_id |-> 0]
    /\ tomtom = TomTomIdle
    /\ brk = BrkIdle
    /\ \E d \in LoadDepotIds, js \in LoadJobLists, ts \in LoadTeamLists :
          fmt = [FmtIdle EXCEPT !.stage = "input", !.depot_id = d,
                                !.job_ids = js, !.team_member_ids = ts]

NextLoad == FmtLoad

SpecLoad == InitLoad /\ [][NextLoad]_vars

\* the depot, the jobs and the drivers the request names are the tenant's,
\* located where a location is needed, the jobs draft, and there is at
\* least one job and one driver
LoadableInput ==
    /\ fmt.depot_id \in DOMAIN DepotTable
    /\ DepotTable[fmt.depot_id].tenant_id = TenantA
    /\ DepotTable[fmt.depot_id].location
    /\ fmt.job_ids # <<>>
    /\ \A i \in DOMAIN fmt.job_ids :
          LET j == fmt.job_ids[i] IN
          /\ j \in JobIds
          /\ JobTable[j].tenant_id = TenantA
          /\ JobTable[j].location
          /\ job[j].status = "draft"
    /\ fmt.team_member_ids # <<>>
    /\ \A i \in DOMAIN fmt.team_member_ids :
          /\ fmt.team_member_ids[i] \in TeamMemberIds
          /\ TeamMemberTable[fmt.team_member_ids[i]].tenant_id = TenantA

\* no id is named twice
NoRepeatedId ==
    /\ Cardinality(Range(fmt.job_ids)) = Len(fmt.job_ids)
    /\ Cardinality(Range(fmt.team_member_ids)) = Len(fmt.team_member_ids)

\* what load answered: the data of exactly the rows named, or an error and
\* no data
LoadAnswered(ok) ==
    IF ok
    THEN /\ fmt.stage = "loaded"
         /\ fmt.data.depot_id = fmt.depot_id
         /\ Range(fmt.data.jobs) = Range(fmt.job_ids)
         /\ Range(fmt.data.team_members) = Range(fmt.team_member_ids)
    ELSE /\ fmt.stage = "rejected"
         /\ fmt.error # NoneVal
         /\ fmt.data = NoData

\* C19, as the claim states it: load returns the data exactly when the
\* input is loadable, and fails otherwise.
LoadExactlyWhenLoadable ==
    fmt.stage # "input" => LoadAnswered(LoadableInput)

\* What load does do: it returns the data exactly when the input is
\* loadable and names no id twice, and the jobs of the data are draft.
LoadExactlyWhenLoadableOnce ==
    fmt.stage # "input" =>
        /\ LoadAnswered(LoadableInput /\ NoRepeatedId)
        /\ \A i \in DOMAIN fmt.data.jobs : job[fmt.data.jobs[i]].status = "draft"

(***************************************************************************)
(* TomTom client (optimization_engine/tomtom_client.py): one call of       *)
(* get_matrix_for_optimization, with what the provider answers.            *)
(***************************************************************************)
\* the condition of line 273, with < for <=
UseSyncEndpointBelow(all_locations) == all_locations < SYNC_LOCATION_THRESHOLD

\* get_matrix_for_optimization, line 273
UseSyncEndpoint(all_locations) == all_locations <= SYNC_LOCATION_THRESHOLD

InitTomTom ==
    /\ req = [id \in RequestIds |-> NoRow]
    /\ req_seq = 0
    /\ routes = {}
    /\ route_seq = 0
    /\ job = [j \in JobIds |-> [status |-> "draft", assigned_to |-> 0, route_id |-> 0]]
    /\ queue = <<>>
    /\ deliveries = [id \in RequestIds |-> 0]
    /\ worker = [w \in WorkerIds |-> IdleWorker]
    /\ svc_queue = TRUE
    /\ response = [status |-> NoneVal, request_id |-> 0]
    /\ fmt = FmtIdle
    /\ brk = BrkIdle
    /\ \E n \in 0..MaxMatrixJobs :
          tomtom = [TomTomIdle EXCEPT !.pc = "call", !.jobs = n]

TomTomUnchanged ==
    UNCHANGED <<req, req_seq, routes, route_seq, job, queue, deliveries, worker,
                svc_queue, response, fmt, brk>>

\* get_matrix_for_optimization, lines 260-276: depot first, then the jobs,
\* and the choice of the endpoint
TomTomChoose ==
    /\ tomtom.pc = "call"
    /\ LET all_locations == 1 + tomtom.jobs IN
       tomtom' = IF UseSyncEndpoint(all_locations)
                 THEN [tomtom EXCEPT !.pc = "sync", !.endpoint = "sync"]
                 ELSE [tomtom EXCEPT !.pc = "submit", !.endpoint = "async"]
    /\ TomTomUnchanged

\* _get_matrix_sync, with the except clauses of lines 281-286
TomTomSync(http_ok) ==
    /\ tomtom.pc = "sync"
    /\ tomtom' = IF http_ok THEN [tomtom EXCEPT !.pc = "done"]
                 ELSE [tomtom EXCEPT !.pc = "raised",
                          !.error = "Route calculation failed. TomTom API error: 500"]
    /\ TomTomUnchanged

\* _get_matrix_async, lines 195-203: the submission
TomTomSubmit(answer) ==
    /\ tomtom.pc = "submit"
    /\ tomtom' =
         CASE answer = "jobId" -> [tomtom EXCEPT !.pc = "poll"]
           [] answer = "no jobId" ->
                [tomtom EXCEPT !.pc = "raised",
                    !.error = "TomTom async submission did not return jobId"]
           [] answer = "http error" ->
                [tomtom EXCEPT !.pc = "raised",
                    !.error = "Route calculation failed. TomTom API error: 500"]
    /\ TomTomUnchanged

\* one turn of a polling loop that takes Failed for one more Running
TomTomPollIgnoringFailed(state) ==
    /\ tomtom.pc = "poll"
    /\ tomtom.attempts < MAX_POLL_ATTEMPTS
    /\ LET polled == [tomtom EXCEPT !.attempts = @ + 1,
                                    !.slept = @ + POLL_INTERVAL_SECONDS,
                                    !.state = state]
       IN  tomtom' =
             CASE state = "Completed" -> [polled EXCEPT !.pc = "download"]
               [] state = "http error" ->
                    [polled EXCEPT !.pc = "raised",
                        !.error = "Route calculation failed. TomTom API error: 500"]
               [] OTHER -> polled
    /\ TomTomUnchanged

\* _get_matrix_async, lines 210-224: one turn of the polling loop
TomTomPoll(state) ==
    /\ tomtom.pc = "poll"
    /\ tomtom.attempts < MAX_POLL_ATTEMPTS
    /\ LET polled == [tomtom EXCEPT !.attempts = @ + 1,
                                    !.slept = @ + POLL_INTERVAL_SECONDS,
                                    !.state = state]
       IN  tomtom' =
             CASE state = "Completed" -> [polled EXCEPT !.pc = "download"]
               [] state = "Failed" ->
                    [polled EXCEPT !.pc = "raised",
                        !.error = "TomTom async job failed: Unknown error"]
               [] state = "http error" ->
                    [polled EXCEPT !.pc = "raised",
                        !.error = "Route calculation failed. TomTom API error: 500"]
               [] OTHER -> polled
    /\ TomTomUnchanged

\* _get_matrix_async, lines 225-226: the else of the for loop
TomTomPollTimeout ==
    /\ tomtom.pc = "poll"
    /\ tomtom.attempts = MAX_POLL_ATTEMPTS
    /\ tomtom' = [tomtom EXCEPT !.pc = "raised",
                                !.error = "TomTom async job timed out after 120s"]
    /\ TomTomUnchanged

\* _get_matrix_async, lines 228-239: the download of the result
TomTomDownload(http_ok) ==
    /\ tomtom.pc = "download"
    /\ tomtom' = IF http_ok THEN [tomtom EXCEPT !.pc = "done"]
                 ELSE [tomtom EXCEPT !.pc = "raised",
                          !.error = "Route calculation failed. TomTom API error: 500"]
    /\ TomTomUnchanged

NextTomTom ==
    \/ TomTomChoose
    \/ \E http_ok \in BOOLEAN : TomTomSync(http_ok)
    \/ \E answer \in {"jobId", "no jobId", "http error"} : TomTomSubmit(answer)
    \/ \E state \in {"Running", "Completed", "Failed", "http error"} : TomTomPoll(state)
    \/ TomTomPollTimeout
    \/ \E http_ok \in BOOLEAN : TomTomDownload(http_ok)

SpecTomTom == InitTomTom /\ [][NextTomTom]_vars

\* C20: the call goes to the synchronous endpoint exactly when 1 + |jobs| is
\* at most 14, and to the asynchronous one otherwise: 14 locations go sync,
\* 15 go async.
SyncUpToFourteen ==
    tomtom.endpoint # NoneVal =>
        /\ (tomtom.endpoint = "sync") <=> (1 + tomtom.jobs <= 14)
        /\ (tomtom.endpoint = "async") <=> (1 + tomtom.jobs > 14)
        /\ (1 + tomtom.jobs = 14 => tomtom.endpoint = "sync")
        /\ (1 + tomtom.jobs = 15 => tomtom.endpoint = "async")

\* C20, its case: a call with 15 locations has got its matrix, asynchronously
FifteenLocationsAsync ==
    tomtom.pc = "done" /\ 1 + tomtom.jobs = 15 /\ tomtom.endpoint = "async"

\* every HTTP call of the client carries a timeout (lines 197, 213, 230), so
\* each step of a call that has begun is taken
SpecTomTomLive == SpecTomTom /\ WF_vars(NextTomTom)

TomTomEnded == tomtom.pc \in {"done", "raised"}

\* the polls made so far: at most 60, each after a sleep of 2 s
PollsBounded ==
    /\ tomtom.attempts <= 60
    /\ tomtom.slept = 2 * tomtom.attempts
    /\ (tomtom.endpoint = "sync" => tomtom.attempts = 0)

\* the result is downloaded only for a job whose last poll said Completed
DownloadAfterCompleted ==
    /\ (tomtom.pc = "download" => tomtom.state = "Completed")
    /\ (tomtom.pc = "done" /\ tomtom.endpoint = "async" => tomtom.state = "Completed")

\* the timeout is raised after 60 polls, none of which said Completed or Failed
TimeoutAfterSixty ==
    tomtom.error = "TomTom async job timed out after 120s" =>
        /\ tomtom.pc = "raised"
        /\ tomtom.attempts = 60
        /\ tomtom.state = "Running"

\* a poll that says Failed raises at once, one that says Completed ends the
\* polling, and while it polls no poll has said either of them
PollStep ==
    /\ tomtom.pc = "poll" /\ tomtom.attempts > 0 => tomtom.state = "Running"
    /\ tomtom.state = "Failed" =>
          tomtom.pc = "raised" /\ tomtom.error = "TomTom async job failed: Unknown error"
    /\ tomtom.state = "Completed" => tomtom.pc \in {"download", "done", "raised"}

\* C21: the asynchronous protocol ends; it polls at most 60 times, 2 s before
\* each poll; it downloads only after a poll said Completed, raises as soon
\* as a poll says Failed, and raises the timeout after 60 polls without
\* Completed.
AsyncProtocolTerminates ==
    /\ [](PollsBounded /\ DownloadAfterCompleted /\ TimeoutAfterSixty /\ PollStep)
    /\ <>TomTomEnded

\* C21, its case: 60 polls were made, none said Completed, the timeout is raised
SixtyPollsTimedOut ==
    /\ tomtom.pc = "raised"
    /\ tomtom.endpoint = "async"
    /\ tomtom.attempts = MAX_POLL_ATTEMPTS
    /\ tomtom.error = "TomTom async job timed out after 120s"

(***************************************************************************)
(* Breaks: ConstraintBuilder.add_break_constraints and                     *)
(* VRPSolver._extract_break_info, on rosters of two drivers.               *)
(***************************************************************************)
\* break_duration or 30 (constraint_builder.py:166, solver.py:455)
DefaultBreakMinutes == 30

\* the seconds around a departure in which a break counts as taken at the stop
BreakAtStopSeconds == 60

\* The columns of app/models/team_member.py that the break code reads. The
\* class maps break_time_start and break_time_end; it maps no break_duration.
BreakStarts == {NoTime, Time(12, 0, 0)}
BreakEnds == {NoTime, Time(12, 20, 0), Time(12, 30, 0), Time(14, 0, 0)}
BreakDrivers ==
    {[id |-> 0, break_time_start |-> s, break_time_end |-> e] :
        s \in BreakStarts, e \in BreakEnds}
BreakRosters ==
    {<<[a EXCEPT !.id = 1], [b EXCEPT !.id = 2]>> : a, b \in BreakDrivers}

\* getattr on a mapped row: an attribute the class does not map raises
HasAttr(row, name) == name \in DOMAIN row
AttributeError == "'TeamMember' object has no attribute 'break_duration'"

HasBreakWindow(tm) == IsTime(tm.break_time_start) /\ IsTime(tm.break_time_end)

RECURSIVE AddBreakConstraintsFrom(_, _, _)
\* ConstraintBuilder.add_break_constraints: the loop from tm_idx on, with the
\* intervals set so far (one sequence of intervals per vehicle)
AddBreakConstraintsFrom(team_members, tm_idx, intervals) ==
    IF tm_idx > Len(team_members) THEN [error |-> NoneVal, intervals |-> intervals]
    ELSE
      LET team_member == team_members[tm_idx] IN
      IF ~HasBreakWindow(team_member)
      THEN AddBreakConstraintsFrom(team_members, tm_idx + 1, intervals)
      ELSE IF ~HasAttr(team_member, "break_duration")
      THEN [error |-> AttributeError, intervals |-> intervals]
      ELSE
        LET break_window_start == TimeToSeconds(team_member.break_time_start)
            break_window_end == TimeToSeconds(team_member.break_time_end)
            break_duration_minutes ==
                IF Truthy(team_member.break_duration)
                THEN team_member.break_duration ELSE DefaultBreakMinutes
            break_duration_seconds == break_duration_minutes * 60
            latest_break_start == break_window_end - break_duration_seconds
        IN  IF latest_break_start < break_window_start
            THEN AddBreakConstraintsFrom(team_members, tm_idx + 1, intervals)
            ELSE AddBreakConstraintsFrom(team_members, tm_idx + 1,
                    [intervals EXCEPT ![tm_idx] =
                        <<[start_min |-> break_window_start,
                           start_max |-> latest_break_start,
                           duration |-> break_duration_seconds,
                           optional |-> FALSE,
                           name |-> team_member.id]>>])

\* ConstraintBuilder.add_break_constraints
AddBreakConstraints(team_members) ==
    AddBreakConstraintsFrom(team_members, 1,
                            [v \in 1..Len(team_members) |-> <<>>])

NoBreakInfo == [break_start_seconds |-> -1]

\* VRPSolver._extract_break_info, the fallback of lines 455-470 and 540-555
ConfiguredBreakInfo(team_member) ==
    IF ~HasAttr(team_member, "break_duration")
    THEN [error |-> AttributeError, info |-> NoBreakInfo]
    ELSE
      LET break_duration_minutes ==
              IF Truthy(team_member.break_duration)
              THEN team_member.break_duration ELSE DefaultBreakMinutes
          break_start_seconds == TimeToSeconds(team_member.break_time_start)
      IN  [error |-> NoneVal,
           info |-> [break_start_seconds |-> break_start_seconds,
                     break_end_seconds |-> break_start_seconds + break_duration_minutes * 60,
                     break_duration_minutes |-> break_duration_minutes,
                     break_after_stop_index |-> -1,
                     at_stop |-> FALSE]]

\* the last stop the break starts after, and whether the break is taken there
BreakAfterStop(route_stops, break_start_seconds) ==
    LET after == {i \in 1..Len(route_stops) :
                     route_stops[i].arrival_time + route_stops[i].service_duration
                         <= break_start_seconds}
        at == {i \in after :
                  /\ route_stops[i].arrival_time <= break_start_seconds
                  /\ break_start_seconds <
                        route_stops[i].arrival_time + route_stops[i].service_duration
                            + BreakAtStopSeconds}
    IN  [break_after_stop_index |-> IF after = {} THEN -1 ELSE Max(after) - 1,
         at_stop |-> at # {}]

\* VRPSolver._extract_break_info, for one vehicle: the intervals the time
\* dimension holds for it and the start the solution gives the first of them
ExtractBreakInfo(team_member, break_intervals, start_value, route_stops) ==
    IF ~HasBreakWindow(team_member) THEN [error |-> NoneVal, info |-> NoBreakInfo]
    ELSE IF break_intervals = <<>>
    THEN \* the fallback raises inside the try, and once more inside the except
         ConfiguredBreakInfo(team_member)
    ELSE
      LET break_interval == break_intervals[1]
          break_start_seconds == start_value
          break_end_seconds == start_value + break_interval.duration
          after == BreakAfterStop(route_stops, break_start_seconds)
      IN  [error |-> NoneVal,
           info |-> [break_start_seconds |-> break_start_seconds,
                     break_end_seconds |-> break_end_seconds,
                     break_duration_minutes |->
                         (break_end_seconds - break_start_seconds) \div 60,
                     break_after_stop_index |-> after.break_after_stop_index,
                     at_stop |-> after.at_stop]]

\* the stops of the route a driver is given: one job, reached at noon
BreakRouteStops == <<[arrival_time |-> 43200, service_duration |-> 60]>>

InitBreak ==
    /\ req = [id \in RequestIds |-> NoRow]
    /\ req_seq = 0
    /\ routes = {}
    /\ route_seq = 0
    /\ job = [j \in JobIds |-> [status |-> "draft", assigned_to |-> 0, route_id |-> 0]]
    /\ queue = <<>>
    /\ deliveries = [id \in RequestIds |-> 0]
    /\ worker = [w \in WorkerIds |-> IdleWorker]
    /\ svc_queue = TRUE
    /\ response = [status |-> NoneVal, request_id |-> 0]
    /\ fmt = FmtIdle
    /\ tomtom = TomTomIdle
    /\ \E roster \in BreakRosters :
          brk = [BrkIdle EXCEPT !.stage = "input", !.team_members = roster]

BreakUnchanged ==
    UNCHANGED <<req, req_seq, routes, route_seq, job, queue, deliveries, worker,
                svc_queue, response, fmt, tomtom>>

\* VRPSolver._add_constraints, its last call
BreakAdd ==
    /\ brk.stage = "input"
    /\ LET added == AddBreakConstraints(brk.team_members) IN
       brk' = IF added.error # NoneVal
              THEN [brk EXCEPT !.stage = "raised", !.error = added.error]
              ELSE [brk EXCEPT !.stage = "constrained", !.intervals = added.intervals]
    /\ BreakUnchanged

\* VRPSolver._extract_solution, the break_info of every route: the solver
\* gives each interval a start inside its range
BreakExtract ==
    /\ brk.stage = "constrained"
    /\ \E late \in [1..Len(brk.team_members) -> BOOLEAN] :
          LET start_value(v) ==
                  IF brk.intervals[v] = <<>> THEN 0
                  ELSE IF late[v] THEN brk.intervals[v][1].start_max
                  ELSE brk.intervals[v][1].start_min
              extracted == [v \in 1..Len(brk.team_members) |->
                              ExtractBreakInfo(brk.team_members[v], brk.intervals[v],
                                               start_value(v), BreakRouteStops)]
              failed == {v \in 1..Len(brk.team_members) : extracted[v].error # NoneVal}
          IN  brk' = IF failed # {}
                     THEN [brk EXCEPT !.stage = "raised",
                              !.error = extracted[Min(failed)].error]
                     ELSE [brk EXCEPT !.stage = "extracted",
                              !.break_info = [v \in 1..Len(brk.team_members) |->
                                                 extracted[v].info]]
    /\ BreakUnchanged

NextBreak == BreakAdd \/ BreakExtract

SpecBreak == InitBreak /\ [][NextBreak]_vars

\* the break constraints are in place: the call has returned or raised
BreakConstraintsBuilt == brk.stage \in {"constrained", "extracted", "raised"}

\* the one interval a driver's break window asks for, with the duration d
BreakIntervalOf(tm, d) ==
    [start_min |-> TimeToSeconds(tm.break_time_start),
     start_max |-> TimeToSeconds(tm.break_time_end) - d,
     duration |-> d, optional |-> FALSE, name |-> tm.id]

\* C22: for each driver with a break window and the break duration d (30
\* minutes where none is set), if the window is at least d long exactly one
\* mandatory interval of length d is added, its start in
\* [break_start, break_end - d]; if it is shorter no interval is added, and
\* the other drivers' intervals are what they are without this driver.
BreakIntervalPerDriver ==
    BreakConstraintsBuilt =>
        /\ brk.error = NoneVal
        /\ \A v \in 1..Len(brk.team_members) :
             LET tm == brk.team_members[v]
                 d == DefaultBreakMinutes * 60
                 window == TimeToSeconds(tm.break_time_end)
                              - TimeToSeconds(tm.break_time_start)
             IN  IF HasBreakWindow(tm) /\ window >= d
                 THEN brk.intervals[v] = <<BreakIntervalOf(tm, d)>>
                 ELSE brk.intervals[v] = <<>>

\* a formatted result one of whose routes got no polyline
NullPolyline(result) ==
    /\ result.status = "success"
    /\ \E k \in DOMAIN result.routes : result.routes[k].route_polyline = NoneVal

\* C23: a failure of the polyline call never fails the request: the route is
\* formatted with route_polyline null, and the worker goes on to store the
\* result and the routes and to complete; only a failing database statement
\* takes it to the except clause.
PolylineFailureNotFatal ==
    [][\A w \in WorkerIds :
          (/\ NullPolyline(worker[w].result)
           /\ worker[w].pc # "except"
           /\ worker'[w].pc = "except") => worker'[w].tx_failed]_vars

\* the gap before stop i + 1 of a route, from the stops alone: the depot
\* start leaves when it arrives, a job stop after its service
GapSeconds(st, i) ==
    DatetimeSeconds(st[i + 1].arrival_time)
        - ((IF st[i].stop_type = "depot"
            THEN DatetimeSeconds(st[i].arrival_time)
            ELSE DatetimeSeconds(st[i].arrival_time)
                    + st[i].service_duration_minutes * 60)
           + st[i].time_to_next_stop_seconds)

\* C24: for each pair of stops (i, i + 1) of a route there is an idle block
\* exactly when the gap is longer than 60 s; the block starts at the
\* departure plus the travel time, ends at the next arrival, names i and the
\* downstream stop; so blocks last more than 60 s and are in the order of
\* the pairs, at most one per pair.
IdleBlocksOfGaps ==
    fmt.stage \in {"formatted", "stored"} =>
        \A k \in DOMAIN fmt.result.routes :
            LET st == fmt.result.routes[k].stops
                blocks == fmt.result.routes[k].idle_blocks
            IN  /\ \A i \in 1..(Len(st) - 1) :
                      (GapSeconds(st, i) > 60) <=>
                          (\E b \in DOMAIN blocks : blocks[b].after_stop_index = i - 1)
                /\ \A b \in DOMAIN blocks :
                      LET i == blocks[b].after_stop_index + 1 IN
                      /\ i \in 1..(Len(st) - 1)
                      /\ DatetimeSeconds(blocks[b].end_time)
                            = DatetimeSeconds(st[i + 1].arrival_time)
                      /\ DatetimeSeconds(blocks[b].end_time)
                            - DatetimeSeconds(blocks[b].start_time) = GapSeconds(st, i)
                      /\ DatetimeSeconds(blocks[b].end_time)
                            - DatetimeSeconds(blocks[b].start_time) > 60
                      /\ blocks[b].location = st[i + 1].job_id
                /\ \A b, c \in DOMAIN blocks :
                      b < c => blocks[b].after_stop_index < blocks[c].after_stop_index

\* C24, its case: a formatted route with a gap of exactly a minute, which
\* gets no block, and a longer gap, which gets one
MinuteGapAndLongerGap ==
    /\ fmt.stage = "formatted"
    /\ \E k \in DOMAIN fmt.result.routes :
          LET st == fmt.result.routes[k].stops IN
          /\ \E i \in 1..(Len(st) - 1) : GapSeconds(st, i) = 60
          /\ \E i \in 1..(Len(st) - 1) : GapSeconds(st, i) > 60
          /\ fmt.result.routes[k].idle_blocks # <<>>

\* the drivers of a formatted request, and a job's window and service in seconds
FmtDrivers == {TeamMemberTable[t] : t \in Range(fmt.data.team_members)}
WindowOf(j) ==
    [start |-> TimeToSeconds(JobTable[j].time_window_start),
     end |-> TimeToSeconds(JobTable[j].time_window_end)]
HasWindow(j) == IsTime(JobTable[j].time_window_start) /\ IsTime(JobTable[j].time_window_end)
ServiceSeconds(j) == JobTable[j].service_duration * 60
ShiftOf(tm) ==
    [start |-> TimeToSeconds(tm.work_start_time), end |-> TimeToSeconds(tm.work_end_time)]

\* the reason by the three rules, from the tables alone
ReasonByAvailability(j) ==
    LET open == \E d \in FmtDrivers : ~HasWorkingHours(d)
        shifts == {ShiftOf(tm) : tm \in {d \in FmtDrivers : HasWorkingHours(d)}}
    IN
    IF /\ HasWindow(j)
       /\ ~open
       /\ \A sh \in shifts :
             ~(WindowOf(j).start < sh.end /\ sh.start < WindowOf(j).end)
    THEN TimeWindowReason
    ELSE IF /\ ServiceSeconds(j) > 0
            /\ ~open
            /\ \A sh \in shifts : ServiceSeconds(j) > sh.end - sh.start
    THEN ServiceDurationReason(JobTable[j].service_duration)
    ELSE DefaultReason

BreakInfoNeverExtracted ==
    /\ (\E v \in DOMAIN brk.team_members : HasBreakWindow(brk.team_members[v]))
          => brk.stage \in {"input", "raised"}
    /\ brk.stage = "extracted" =>
          \A v \in DOMAIN brk.break_info : brk.break_info[v] = NoBreakInfo

\* C27: a request with status completed has no error_message: update_status
\* leaves no message of an earlier failed run on a row that becomes completed.
CompletedHasNoError ==
    \A id \in RequestIds :
        req[id].status = "completed" => req[id].error_message = NoneVal

(***************************************************************************)
(* The endpoints that write job rows and delete requests                   *)
(* (routers/job.py, services/job.py, routers/optimization.py).             *)
(***************************************************************************)
\* app/models/job.py:8-12
JobStatusValues == {"draft", "assigned", "completed", "in_transit"}

InitJobs ==
    /\ Init
    /\ job = [j \in JobIds |-> [status |-> "draft", assigned_to |-> 0, route_id |-> 0]]

\* PUT /jobs/{job_id} with a JobUpdate that sets status. JobService.update_job
\* gets the job of the tenant (404 when there is none) and CRUDBase.update
\* sets the fields the schema carries; JobUpdate has status and assigned_to
\* and no route_id.
UpdateJob(tenant_id, job_id, status) ==
    /\ IF job_id \in JobIds /\ JobTable[job_id].tenant_id = tenant_id
       THEN /\ job' = [job EXCEPT ![job_id].status = status]
            /\ response' = [status |-> "200", request_id |-> job_id]
       ELSE /\ UNCHANGED job
            /\ response' = [status |-> "404", request_id |-> job_id]
    /\ UNCHANGED <<req, req_seq, routes, route_seq, queue, deliveries, worker,
                   svc_queue, fmt, tomtom, brk>>

\* DELETE /requests/{request_id} (routers/optimization.py:93-115): the router
\* calls optimization_service.delete_optimization_request, an attribute the
\* OptimizationService does not have: AttributeError, and no row is deleted.
DeleteRequest(tenant_id, request_id) ==
    /\ response' = [status |-> "AttributeError", request_id |-> request_id]
    /\ UNCHANGED <<req, req_seq, routes, route_seq, job, queue, deliveries,
                   worker, svc_queue, fmt, tomtom, brk>>

NextJobs ==
    \/ \E t \in TenantIds, j \in JobIds \cup {5}, s \in JobStatusValues : UpdateJob(t, j, s)
    \/ \E t \in TenantIds, id \in RequestIds : DeleteRequest(t, id)

SpecJobs == InitJobs /\ [][NextJobs]_vars

\* C28: every job with status assigned has a route_id, and the route_id is
\* that of a Route row there is; none is left assigned with route_id null.
AssignedJobsHaveRoute ==
    \A j \in JobIds :
        job[j].status = "assigned" =>
            /\ job[j].route_id # 0
            /\ \E row \in routes : row.id = job[j].route_id

\* C29: load fails for every request whose job_ids or team_member_ids names
\* an id more than once, also when every id named is an existing, draft,
\* located job, or an existing driver, of the tenant.
RepeatedIdFailsLoad ==
    (fmt.stage \in {"loaded", "rejected"} /\ ~NoRepeatedId) =>
        /\ fmt.stage = "rejected"
        /\ fmt.error # NoneVal
        /\ fmt.data = NoData

\* C29, its case: a loadable input that names job 1 twice, and nothing else
\* twice, was rejected
RepeatedJobRejected ==
    /\ fmt.stage = "rejected"
    /\ LoadableInput
    /\ fmt.job_ids = <<1, 1>>
    /\ Cardinality(Range(fmt.team_member_ids)) = Len(fmt.team_member_ids)

(***************************************************************************)
(* One request under each optimization goal (schemas/optimization.py).     *)
(***************************************************************************)
OptimizationGoals == {"minimum_time", "minimum_distance"}

GoalInputs ==
    {[tenant_id |-> TenantA, depot_id |-> 1, job_ids |-> <<1, 2>>,
      team_member_ids |-> <<1>>, optimization_goal |-> g,
      route_name |-> "dec 1"] : g \in OptimizationGoals}

SubmitGoal ==
    /\ req_seq < MaxFaultReq
    /\ \E inp \in GoalInputs, reconnect_ok, enqueue_ok \in BOOLEAN :
          Submit(inp, reconnect_ok, enqueue_ok)

NextGoal ==
    \/ SubmitGoal
    \/ \E w \in WorkerIds : Dequeue(w)
    \/ \E w \in WorkerIds : WorkerStep(w)

SpecGoal == Init /\ [][NextGoal]_vars

\* C30: the optimization_goal in the result of a completed request is the
\* optimization_goal of the request row, which the solver was given.
ResultGoalIsRequestGoal ==
    \A id \in RequestIds :
        (req[id].status = "completed" /\ req[id].result # NoResult) =>
            req[id].result.optimization_goal = req[id].optimization_goal

====
